---- MODULE Spec2Model ----
(***************************************************************************)
(* Model of the 4-digit guessing game server (src/app.py, src/config.py).  *)
(*                                                                         *)
(* One room is modelled.  The server runs Socket.IO in threading mode      *)
(* (app.py:57-63): every client event and every threading.Timer callback   *)
(* runs in its own thread, so a handler is a sequence of steps, one per    *)
(* access to shared state (one SQL statement or transaction commit, one    *)
(* `with rooms_lock` block, one `with timers_lock` block).  Thread-local   *)
(* computation is folded into the step that precedes it.                   *)
(*                                                                         *)
(* SQLite: a SELECT outside a transaction reads the last committed state;  *)
(* the first INSERT/UPDATE/DELETE of a handler opens a transaction and     *)
(* takes the database write lock, and its writes become visible at         *)
(* conn.commit().  A write transaction with no other shared access between *)
(* its first write and its commit is one step.  A handler's entry (reading *)
(* the request) is folded into its first access to shared state.           *)
(*                                                                         *)
(* Strings are sequences of one-character strings.  Columns that no        *)
(* handler reads back (rooms.created_at, players.last_seen, history.ts)    *)
(* are not part of the state.                                              *)
(***************************************************************************)
EXTENDS Integers, Sequences, FiniteSets, TLC

\* ------------------------------------------------------------------------
\* Program constants (src/config.py)
\* ------------------------------------------------------------------------
DIGIT_COUNT == 4
MIN_SECRET == 1000
MAX_SECRET == 9999
TURN_TIMEOUT_SECONDS == 60

\* ------------------------------------------------------------------------
\* Bounds of the model
\* ------------------------------------------------------------------------
\* guesses a slot may record before further submit_guess requests stop
MaxGuesses == 2
\* tokens gen_token may hand out for one slot
MaxTokens == 2
\* threading.Timer objects alive at once (waiting or running their callback)
MaxTimers == 2
\* runtime dictionaries alive at once (the registered one plus orphans)
MaxRtObjs == 2
\* last value of the wall clock
MaxNow == 1
\* threads running at once: handlers and timer callbacks
MaxRunning == 2
\* the admin requests read the clock at most MaxTicks readings after the first
MaxTicks == 4
\* the wall clock of a game in progress passes at most to MaxTime
MaxTime == 3

Slots == {1, 2}
Conns == {"c1", "c2"}
Threads == {"t1", "t2"}
TimerIds == 1..MaxTimers
ObjIds == 1..MaxRtObjs

\* SQL NULL / Python None for timer_start_ms; the clock starts at 1
NoTime == 0
\* no row in players: token 0;  no row in secrets: the empty string
NoToken == 0
NoSecret == <<>>
\* rt['players'][p] = None
NoConn == "None"

\* ------------------------------------------------------------------------
\* Characters and strings
\* ------------------------------------------------------------------------
AsciiDigits == <<"0", "1", "2", "3", "4", "5", "6", "7", "8", "9">>
\* fullwidth digits U+FF10..U+FF19: str.isdigit() is True and int() accepts them
FullwidthDigits == <<"fw0", "fw1", "fw2", "fw3", "fw4", "fw5", "fw6", "fw7", "fw8", "fw9">>
\* superscript digits: str.isdigit() is True but int() raises ValueError
SuperscriptDigits == {"sup2", "sup3"}
Whitespace == {" ", "tab", "nl"}

RangeOf(s) == {s[i] : i \in DOMAIN s}

IsDecimalChar(c) == c \in RangeOf(AsciiDigits) \cup RangeOf(FullwidthDigits)

\* str.isdigit() for one character
IsDigitChar(c) == IsDecimalChar(c) \/ c \in SuperscriptDigits

\* str.isdigit(): non-empty and every character is a digit
isdigit(s) == Len(s) > 0 /\ \A i \in DOMAIN s : IsDigitChar(s[i])

DigitValue(c) ==
    IF c \in RangeOf(AsciiDigits)
    THEN (CHOOSE i \in DOMAIN AsciiDigits : AsciiDigits[i] = c) - 1
    ELSE (CHOOSE i \in DOMAIN FullwidthDigits : FullwidthDigits[i] = c) - 1

\* int(s) raises ValueError
IntRaises(s) == Len(s) = 0 \/ \E i \in DOMAIN s : ~IsDecimalChar(s[i])

RECURSIVE IntOf(_)
\* int(s) for a string of decimal digits
IntOf(s) ==
    IF Len(s) = 0 THEN 0
    ELSE 10 * IntOf(SubSeq(s, 1, Len(s) - 1)) + DigitValue(s[Len(s)])

RECURSIVE LStrip(_)
LStrip(s) == IF Len(s) > 0 /\ s[1] \in Whitespace THEN LStrip(Tail(s)) ELSE s

RECURSIVE RStrip(_)
RStrip(s) ==
    IF Len(s) > 0 /\ s[Len(s)] \in Whitespace
    THEN RStrip(SubSeq(s, 1, Len(s) - 1)) ELSE s

\* str.strip()
Strip(s) == RStrip(LStrip(s))

\* validate_number for a value on which int() does not raise
validate_number(value) ==
    IF Len(value) = 0 \/ ~isdigit(value) THEN FALSE
    ELSE IF Len(value) # DIGIT_COUNT THEN FALSE
    ELSE MIN_SECRET <= IntOf(value) /\ IntOf(value) <= MAX_SECRET

\* validate_number raises (the handler's except clause catches it)
ValidateRaises(value) ==
    Len(value) = DIGIT_COUNT /\ isdigit(value) /\ IntRaises(value)

\* mutant: counts the digits of the guess that occur anywhere in the secret
count_matches_anywhere(guess, secret) ==
    Cardinality({i \in 1..DIGIT_COUNT : \E j \in 1..DIGIT_COUNT : guess[i] = secret[j]})

count_matches(guess, secret) ==
    Cardinality({i \in 1..DIGIT_COUNT : guess[i] = secret[i]})

WinOutcome == "Correct! You win!"

\* outcome string of on_submit_guess
Outcome(matches) ==
    IF matches = DIGIT_COUNT THEN WinOutcome ELSE ToString(matches) \o " correct"

\* opponent / next_turn
Other(player) == IF player = 1 THEN 2 ELSE 1

\* ------------------------------------------------------------------------
\* Inputs
\* ------------------------------------------------------------------------
S1234 == <<"1", "2", "3", "4">>
S1243 == <<"1", "2", "4", "3">>
\* what clients send as secret: a valid number padded with blanks (the handler
\* strips them) and a number below MIN_SECRET
SecretInputs == {<<" ">> \o S1234 \o <<" ">>, <<"0", "9", "9", "9">>}
\* what clients send as guess: 1234 wins against the secret 1234, 1243 has two
\* digits in place, 0999 is below MIN_SECRET
GuessInputs == {S1234, S1243, <<"0", "9", "9", "9">>}
\* gen_token draws 32 random characters: every call returns a token never seen
\* before.  Token(p, n) is the n-th token handed out for slot p.
Token(p, n) == 2 * (n - 1) + p
\* a token no slot holds
BadToken == Token(1, MaxTokens + 1)


\* ------------------------------------------------------------------------
\* State
\* ------------------------------------------------------------------------
VARIABLES
    room,           \* the room's row of table rooms
    players,        \* table players: slot -> token
    secrets,        \* table secrets: slot -> secret
    history,        \* table history: slot -> set of rows [idx, guess, outcome]
    rooms_runtime,  \* rooms_runtime[room_id]: the registered dictionary, 0 if absent
    objs,           \* the runtime dictionaries: players and finished
    turn_timers,    \* turn_timers[room_id]: a timer, 0 if absent
    timer,          \* the threading.Timer objects: callback's position, emitted events
    thr,            \* the handler threads: request, position, locals, emitted events
    connected,      \* the Socket.IO connections that have not disconnected
    nextTok,        \* per slot, the number of the next token gen_token returns
    now,            \* wall clock: the last value time.time() returned
    admin_attempts, \* admin_attempts[ip]: the times of the admitted admin requests
    call            \* a call of validate_number or count_matches and what it returned

storeVars == <<room, players, secrets, history, nextTok>>
regVars == <<rooms_runtime, objs>>
timerVars == <<turn_timers, timer>>
vars == <<room, players, secrets, history, rooms_runtime, objs,
          turn_timers, timer, thr, connected, nextTok, now, admin_attempts, call>>

\* the caller identities of admin requests: request.remote_addr
Ips == {"ip1", "ip2"}

\* get_runtime_room's fresh dictionary
EmptyRt ==
    [players |-> [p \in Slots |-> NoConn], finished |-> [p \in Slots |-> FALSE]]

NoFinished == [p \in Slots |-> FALSE]

NoRoom == [exists |-> FALSE, started |-> 0, current_turn |-> 1, timer_start_ms |-> NoTime]

\* the row on_create_room inserts
NewRoom == [exists |-> TRUE, started |-> 0, current_turn |-> 1, timer_start_ms |-> NoTime]

Idle ==
    [op |-> "idle", pc |-> "idle", conn |-> NoConn, player |-> 0, val |-> <<>>,
     tok |-> NoToken, rt |-> 0, mx |-> 0, secret |-> NoSecret, res |-> "", bcast |-> {}]

FreeTimer == [st |-> "free", player |-> 0, bcast |-> {}]

\* threading.Timer(TURN_TIMEOUT_SECONDS, timeout_callback) for a turn of slot p,
\* started: bcast collects what its handler emits to the room
WaitingTimer(p) == [st |-> "waiting", player |-> p, bcast |-> {}]

\* the state after on_create_room has created the room
Init ==
    /\ room = NewRoom
    /\ players = [p \in Slots |-> NoToken]
    /\ secrets = [p \in Slots |-> NoSecret]
    /\ history = [p \in Slots |-> {}]
    /\ rooms_runtime = 1
    /\ objs = [o \in ObjIds |-> EmptyRt]
    /\ turn_timers = 0
    /\ timer = [k \in TimerIds |-> FreeTimer]
    /\ thr = [t \in Threads |-> Idle]
    /\ connected = Conns
    /\ nextTok = [p \in Slots |-> 1]
    /\ now = 1
    /\ admin_attempts = [ip \in Ips |-> <<>>]
    /\ call = [fn |-> "none"]

\* ------------------------------------------------------------------------
\* Locks, threads, the registry
\* ------------------------------------------------------------------------
\* rooms_lock is held across steps only by a thread that asks for it again
\* while holding it (threading.Lock is not reentrant): that thread never runs on
LockHolders == {t \in Threads : thr[t].pc = "deadlock"}

rooms_lock == IF LockHolders = {} THEN "free" ELSE CHOOSE t \in LockHolders : TRUE

\* the sqlite write lock is held across steps only by a winning submit_guess,
\* between its INSERT and its commit
Writers == {t \in Threads : thr[t].pc \in {"q_finished", "q_commit"}}

db_writer == IF Writers = {} THEN "none" ELSE CHOOSE t \in Writers : TRUE

\* the sqlite write lock is free, so a first write statement goes through
CanWrite == db_writer = "none"

\* a first write statement times out ("database is locked"): the transaction
\* that holds the write lock waits for rooms_lock, which is never released
WriteTimesOut == db_writer # "none" /\ rooms_lock # "free"

\* a dictionary is alive while the registry or a handler's local rt refers to it
Referenced(o, reg, th) == reg = o \/ \E t \in Threads : th[t].rt = o

Collect(os, reg, th) ==
    [o \in ObjIds |-> IF Referenced(o, reg, th) THEN os[o] ELSE EmptyRt]

FreeObjs == {o \in ObjIds : ~Referenced(o, rooms_runtime, thr)}

\* the dictionary get_runtime_room returns (a new one if none is registered)
GetRt == IF rooms_runtime # 0 THEN rooms_runtime
         ELSE CHOOSE o \in FreeObjs : \A o2 \in FreeObjs : o <= o2

\* get_runtime_room can run: rooms_lock is free
CanGetRt == rooms_lock = "free" /\ (rooms_runtime # 0 \/ FreeObjs # {})

\* thread t moves on with record r; the registry becomes reg with dictionaries os
Step(t, r, reg, os) ==
    /\ thr' = [thr EXCEPT ![t] = r]
    /\ rooms_runtime' = reg
    /\ objs' = Collect(os, reg, thr')

\* thread t moves on with record r and touches no dictionary
Go(t, r) == Step(t, r, rooms_runtime, objs)

\* thread t ends; threads are anonymous, the busy ones are kept first
Finish(t, reg) ==
    /\ thr' = [x \in Threads |->
                 IF t = "t1" THEN (IF x = "t1" THEN thr["t2"] ELSE Idle)
                 ELSE IF x = t THEN Idle ELSE thr[x]]
    /\ rooms_runtime' = reg
    /\ objs' = Collect(objs, reg, thr')

\* a handler in flight at position pc1, acting for slot p
At(o, pc1, p) == [Idle EXCEPT !.op = o, !.pc = pc1, !.player = p]

\* the handler is past its last use of its locals: what it emitted to the
\* caller (res, with the token of 'joined') and to the room (bcast)
Done(o, pc1, p, r, k, b) ==
    [Idle EXCEPT !.op = o, !.player = p, !.pc = pc1, !.res = r, !.tok = k, !.bcast = b]

\* mutant: the error is emitted to the room
RejectToRoom(o, e) == [Idle EXCEPT !.op = o, !.pc = "ret", !.res = e, !.bcast = {"error"}]

\* emit('error', ...) to the caller and return
Reject(o, e) == [Idle EXCEPT !.op = o, !.pc = "ret", !.res = e]

\* timer.cancel() and del turn_timers[room_id] of cancel_turn_timer: a timer
\* still waiting never runs; one that has fired runs its callback anyway
cancel_turn_timer(tm) ==
    IF turn_timers # 0 /\ tm[turn_timers].st = "waiting"
    THEN [tm EXCEPT ![turn_timers] = FreeTimer]
    ELSE tm

FreeTimers == {k \in TimerIds : timer[k].st = "free"}

\* the threads that are running a handler or a timer callback
Running ==
    Cardinality({t \in Threads : thr[t].op # "idle"})
      + Cardinality({k \in TimerIds : timer[k].st \notin {"free", "waiting"}})

\* a request is served by the first idle thread
CanStart(t) ==
    /\ Running < MaxRunning
    /\ thr[t].op = "idle"
    /\ (t = "t2" => thr["t1"].op # "idle")

\* the handler returns (after an error, or after its last emit)
Return(t) ==
    /\ thr[t].pc = "ret"
    /\ Finish(t, rooms_runtime)
    /\ UNCHANGED <<storeVars, timerVars, connected, now, admin_attempts, call>>

\* mutant: the readiness entries carry the secrets rows instead of their presence
public_state_with_secrets(rm, sec, hist, fin) ==
    [started |-> rm.exists /\ rm.started # 0,
     current_turn |-> IF rm.exists THEN rm.current_turn ELSE 1,
     finished |-> fin,
     history |-> hist,
     readiness |-> sec,
     timer_start_ms |-> IF rm.exists THEN rm.timer_start_ms ELSE NoTime]

\* public_state(room_id) over the rooms row rm, the secrets rows sec, the history
\* rows hist and rt['finished'] fin: started, current_turn and timer_start_ms of
\* the row (0, 1, None without a row), readiness = which slots have a secrets
\* row, history = the guess and outcome of each row ORDER BY idx
public_state(rm, sec, hist, fin) ==
    LET history_for(p) ==
            LET n == Cardinality(hist[p])
                rows == CHOOSE f \in [1 .. n -> hist[p]] :
                            /\ \A i, j \in 1 .. n : i < j => f[i].idx < f[j].idx
                            /\ \A r \in hist[p] : \E i \in 1 .. n : f[i] = r
            IN  [i \in 1 .. n |-> [guess |-> rows[i].guess, outcome |-> rows[i].outcome]]
    IN  [started |-> rm.exists /\ rm.started # 0,
         current_turn |-> IF rm.exists THEN rm.current_turn ELSE 1,
         finished |-> fin,
         history |-> [p \in Slots |-> history_for(p)],
         readiness |-> [p \in Slots |-> sec[p] # NoSecret],
         timer_start_ms |-> IF rm.exists THEN rm.timer_start_ms ELSE NoTime]

\* emit('state', public_state(room_id), room=room_id) as the handler's last
\* statement: public_state reads the tables and calls get_runtime_room
EmitState(t) ==
    /\ thr[t].pc = "emit"
    /\ CanGetRt
    /\ Finish(t, GetRt)
    /\ UNCHANGED <<storeVars, timerVars, connected, now, admin_attempts, call>>

\* mutant: the check accepts a connection bound to any slot of the room
AuthorizedAnySlot(c, p) ==
    /\ p \in Slots
    /\ \E q \in Slots :
         (IF rooms_runtime # 0 THEN objs[rooms_runtime] ELSE EmptyRt).players[q] = c

\* rt['players'].get(player) == sid, rt being the dictionary that
\* get_runtime_room has just returned
Authorized(c, p) ==
    /\ p \in Slots
    /\ (IF rooms_runtime # 0 THEN objs[rooms_runtime] ELSE EmptyRt).players[p] = c

\* ------------------------------------------------------------------------
\* on_join_room (app.py:687-769)
\* ------------------------------------------------------------------------
\* what a client may send as token: nothing, a wrong token, a token handed out
JoinTokens ==
    {NoToken, BadToken} \cup {Token(p, n) : p \in Slots, n \in 1..MaxTokens}

Issued(k) == \E p \in Slots : \E n \in 1..MaxTokens : n < nextTok[p] /\ k = Token(p, n)

\* join_room requests for a slot stop when gen_token has no token left for it
TokensLeft(p) ==
    p \in Slots =>
        nextTok[p] + Cardinality({t \in Threads : thr[t].op = "join_room"
                                                    /\ thr[t].pc \notin {"ret", "emit"}
                                                    /\ thr[t].player = p}) <= MaxTokens

\* the request arrives; SELECT room_id FROM rooms
on_join_room(t, c, desired, k) ==
    /\ CanStart(t) /\ c \in connected
    /\ k \in {NoToken, BadToken} \/ Issued(k)
    /\ TokensLeft(desired)
    /\ Go(t, IF room.exists
             THEN [At("join_room", "j_getrt", desired) EXCEPT !.conn = c, !.tok = k]
             ELSE Reject("join_room", "RoomNotFound"))
    /\ UNCHANGED <<storeVars, timerVars, connected, now, admin_attempts, call>>

\* what follows a missing or unknown token: the desired_player check
JoinAfterToken(t) ==
    IF thr[t].player \in Slots THEN [thr[t] EXCEPT !.pc = "j_select_slot", !.tok = NoToken]
    ELSE Reject("join_room", "InvalidPlayer")

\* rt = get_runtime_room(room_id); if token: ...
join_getrt(t) ==
    /\ thr[t].pc = "j_getrt"
    /\ CanGetRt
    /\ Step(t, [(IF thr[t].tok # NoToken
                 THEN [thr[t] EXCEPT !.pc = "j_select_token"]
                 ELSE JoinAfterToken(t)) EXCEPT !.rt = GetRt], GetRt, objs)
    /\ UNCHANGED <<storeVars, timerVars, connected, now, admin_attempts, call>>

\* the slots whose stored token is k
SlotsOfToken(k) == {p \in Slots : players[p] = k}

\* SELECT player_num FROM players WHERE room_id=? AND token=?
join_select_token(t) ==
    /\ thr[t].pc = "j_select_token"
    /\ \/ \E pn \in SlotsOfToken(thr[t].tok) :
            Go(t, [thr[t] EXCEPT !.pc = "j_rebind", !.player = pn])
       \/ /\ SlotsOfToken(thr[t].tok) = {}
          /\ Go(t, JoinAfterToken(t))
    /\ UNCHANGED <<storeVars, timerVars, connected, now, admin_attempts, call>>

\* rt['players'][p] = request.sid
Bind(os, o, p, c) == [os EXCEPT ![o].players[p] = c]

\* with rooms_lock: rt['players'][pn] = request.sid   (reconnection)
join_rebind(t) ==
    /\ thr[t].pc = "j_rebind"
    /\ rooms_lock = "free"
    /\ Step(t, [thr[t] EXCEPT !.pc = "j_touch"], rooms_runtime,
            Bind(objs, thr[t].rt, thr[t].player, thr[t].conn))
    /\ UNCHANGED <<storeVars, timerVars, connected, now, admin_attempts, call>>

\* UPDATE players SET last_seen; commit; emit joined, system
join_touch(t) ==
    /\ thr[t].pc = "j_touch"
    /\ \/ /\ CanWrite
          /\ Go(t, Done("join_room", "emit", thr[t].player, "rejoined", thr[t].tok,
                        {"system", "state"}))
       \/ /\ WriteTimesOut
          /\ Go(t, Reject("join_room", "Failed"))
    /\ UNCHANGED <<storeVars, timerVars, connected, now, admin_attempts, call>>

\* the slot already has a row in players
SlotTaken(p) == players[p] # NoToken

\* SELECT token FROM players WHERE room_id=? AND player_num=?
join_select_slot(t) ==
    /\ thr[t].pc = "j_select_slot"
    /\ Go(t, IF SlotTaken(thr[t].player) THEN Reject("join_room", "SlotTaken")
             ELSE [thr[t] EXCEPT !.pc = "j_bind"])
    /\ UNCHANGED <<storeVars, timerVars, connected, now, admin_attempts, call>>

\* with rooms_lock: rt['players'][desired_player] = request.sid
join_bind(t) ==
    /\ thr[t].pc = "j_bind"
    /\ rooms_lock = "free"
    /\ Step(t, [thr[t] EXCEPT !.pc = "j_insert"], rooms_runtime,
            Bind(objs, thr[t].rt, thr[t].player, thr[t].conn))
    /\ UNCHANGED <<storeVars, timerVars, connected, now, admin_attempts, call>>

\* new_token = gen_token()
NewToken(p) == Token(p, nextTok[p])

\* INSERT OR REPLACE INTO players; commit; emit joined, system
join_insert(t) ==
    /\ thr[t].pc = "j_insert"
    /\ \/ /\ CanWrite
          /\ players' = [players EXCEPT ![thr[t].player] = NewToken(thr[t].player)]
          /\ nextTok' = [nextTok EXCEPT ![thr[t].player] = @ + 1]
          /\ Go(t, Done("join_room", "emit", thr[t].player, "joined",
                        NewToken(thr[t].player), {"system", "state"}))
          /\ UNCHANGED <<room, secrets, history>>
       \/ /\ WriteTimesOut
          /\ Go(t, Reject("join_room", "Failed"))
          /\ UNCHANGED storeVars
    /\ UNCHANGED <<timerVars, connected, now, admin_attempts, call>>

\* ------------------------------------------------------------------------
\* on_disconnect (app.py:638-656) and on_leave_room (app.py:772-794)
\* ------------------------------------------------------------------------
\* the slots of the registered dictionary bound to connection c
BoundSlots(c) ==
    IF rooms_runtime = 0 THEN {}
    ELSE {p \in Slots : objs[rooms_runtime].players[p] = c}

Unbind(os, o, ps) ==
    [os EXCEPT ![o].players = [p \in Slots |-> IF p \in ps THEN NoConn ELSE @[p]]]

\* with rooms_lock: unbind the slots of sid; if any was bound, emit system
\* and call public_state, whose get_runtime_room asks for rooms_lock again
\* while this thread holds it
on_disconnect(t, c) ==
    /\ CanStart(t) /\ c \in connected
    /\ rooms_lock = "free"
    /\ connected' = connected \ {c}
    /\ IF BoundSlots(c) # {}
       THEN Step(t, [At("disconnect", "deadlock", 0) EXCEPT !.conn = c, !.bcast = {"system"}],
                 rooms_runtime, Unbind(objs, rooms_runtime, BoundSlots(c)))
       ELSE UNCHANGED <<thr, regVars>>
    /\ UNCHANGED <<storeVars, timerVars, now, admin_attempts, call>>

\* with rooms_lock: if rt['players'].get(player) == request.sid: unbind,
\* emit system, public_state (which asks for rooms_lock again).  A leave_room
\* for a slot not bound to the caller changes nothing and emits nothing
on_leave_room(t, c, p) ==
    /\ CanStart(t) /\ c \in connected
    /\ rooms_lock = "free"
    /\ p \in BoundSlots(c)
    /\ Step(t, [At("leave_room", "deadlock", p) EXCEPT !.conn = c, !.bcast = {"system"}],
            rooms_runtime, Unbind(objs, rooms_runtime, {p}))
    /\ UNCHANGED <<storeVars, timerVars, connected, now, admin_attempts, call>>

\* ------------------------------------------------------------------------
\* Turn timers (app.py:291-322)
\* ------------------------------------------------------------------------
TimersEnabled == TURN_TIMEOUT_SECONDS > 0

LowestFreeTimer == CHOOSE k \in FreeTimers : \A k2 \in FreeTimers : k <= k2

\* start_turn_timer, first part: cancel_turn_timer(room_id)
StartTimerCancel ==
    /\ timer' = cancel_turn_timer(timer)
    /\ turn_timers' = 0

\* start_turn_timer, second part: with timers_lock: create, register, start
StartTimerCreate(p) ==
    /\ FreeTimers # {}
    /\ timer' = [timer EXCEPT ![LowestFreeTimer] = WaitingTimer(p)]
    /\ turn_timers' = LowestFreeTimer

\* ------------------------------------------------------------------------
\* on_set_secret (app.py:797-853) and on_reset_secret (app.py:856-896)
\* ------------------------------------------------------------------------
\* mutant: the started flag is not looked at
GameStartedIgnored == room.exists /\ room.started \notin {0, 1}

\* row and row['started'] == 1
GameStarted == room.exists /\ room.started = 1

\* secret = str(data.get('secret', '')).strip(); validate_number(secret);
\* rt = get_runtime_room(room_id); with rooms_lock: the authorization check
on_set_secret(t, c, p, v) ==
    /\ CanStart(t) /\ c \in connected
    /\ IF ~validate_number(Strip(v))
       THEN Go(t, Reject("set_secret", "InvalidFormat"))
       ELSE /\ CanGetRt
            /\ Step(t, IF Authorized(c, p)
                       THEN [At("set_secret", "s_select", p) EXCEPT !.val = Strip(v),
                                                                    !.rt = GetRt]
                       ELSE Reject("set_secret", "Unauthorized"), GetRt, objs)
    /\ UNCHANGED <<storeVars, timerVars, connected, now, admin_attempts, call>>

\* SELECT started FROM rooms
set_secret_select(t) ==
    /\ thr[t].pc = "s_select"
    /\ Go(t, IF GameStarted THEN Reject("set_secret", "GameAlreadyStarted")
             ELSE [thr[t] EXCEPT !.pc = "s_insert"])
    /\ UNCHANGED <<storeVars, timerVars, connected, now, admin_attempts, call>>

\* INSERT OR REPLACE INTO secrets; commit; emit secret_ack, system
set_secret_insert(t) ==
    /\ thr[t].pc = "s_insert"
    /\ \/ /\ CanWrite
          /\ secrets' = [secrets EXCEPT ![thr[t].player] = thr[t].val]
          /\ Go(t, Done("set_secret", "emit", 0, "secret_ack", NoToken,
                        {"system", "state"}))
          /\ UNCHANGED <<room, players, history, nextTok>>
       \/ /\ WriteTimesOut
          /\ Go(t, Reject("set_secret", "Failed"))
          /\ UNCHANGED storeVars
    /\ UNCHANGED <<timerVars, connected, now, admin_attempts, call>>

\* rt = get_runtime_room(room_id); with rooms_lock: the authorization check
on_reset_secret(t, c, p) ==
    /\ CanStart(t) /\ c \in connected
    /\ CanGetRt
    /\ Step(t, IF Authorized(c, p)
               THEN [At("reset_secret", "r_select", p) EXCEPT !.rt = GetRt]
               ELSE Reject("reset_secret", "Unauthorized"), GetRt, objs)
    /\ UNCHANGED <<storeVars, timerVars, connected, now, admin_attempts, call>>

\* SELECT started FROM rooms
reset_secret_select(t) ==
    /\ thr[t].pc = "r_select"
    /\ Go(t, IF GameStarted THEN Reject("reset_secret", "GameAlreadyStarted")
             ELSE [thr[t] EXCEPT !.pc = "r_delete"])
    /\ UNCHANGED <<storeVars, timerVars, connected, now, admin_attempts, call>>

\* mutant: the DELETE has no player_num condition
reset_secret_delete_room(t) ==
    /\ thr[t].pc = "r_delete"
    /\ CanWrite
    /\ secrets' = [p \in Slots |-> NoSecret]
    /\ Go(t, Done("reset_secret", "emit", 0, "ok", NoToken, {"system", "state"}))
    /\ UNCHANGED <<room, players, history, nextTok>>
    /\ UNCHANGED <<timerVars, connected, now, admin_attempts, call>>

\* DELETE FROM secrets WHERE room_id=? AND player_num=?; commit; emit system
reset_secret_delete(t) ==
    /\ thr[t].pc = "r_delete"
    /\ \/ /\ CanWrite
          /\ secrets' = [secrets EXCEPT ![thr[t].player] = NoSecret]
          /\ Go(t, Done("reset_secret", "emit", 0, "ok", NoToken,
                        {"system", "state"}))
          /\ UNCHANGED <<room, players, history, nextTok>>
       \/ /\ WriteTimesOut
          /\ Go(t, Reject("reset_secret", "Failed"))
          /\ UNCHANGED storeVars
    /\ UNCHANGED <<timerVars, connected, now, admin_attempts, call>>

\* ------------------------------------------------------------------------
\* on_start_game (app.py:899-950)
\* ------------------------------------------------------------------------
\* rt = get_runtime_room(room_id); any connection may ask
on_start_game(t) ==
    /\ CanStart(t) /\ connected # {}
    /\ CanGetRt
    /\ Step(t, [At("start_game", "g_count", 0) EXCEPT !.rt = GetRt], GetRt, objs)
    /\ UNCHANGED <<storeVars, timerVars, connected, now, admin_attempts, call>>

\* SELECT COUNT(*) AS c FROM secrets
SecretCount == Cardinality({p \in Slots : secrets[p] # NoSecret})

start_game_count(t) ==
    /\ thr[t].pc = "g_count"
    /\ Go(t, IF SecretCount < 2 THEN Reject("start_game", "NotEnoughPlayers")
             ELSE [thr[t] EXCEPT !.pc = "g_update"])
    /\ UNCHANGED <<storeVars, timerVars, connected, now, admin_attempts, call>>

\* mutant: the UPDATE does not set current_turn
StartedRowKeepsTurn(r, ms) ==
    IF r.exists THEN [r EXCEPT !.started = 1, !.timer_start_ms = ms] ELSE r

\* UPDATE rooms SET started=1, current_turn=1, timer_start_ms=?  (no row: no effect)
StartedRow(r, ms) ==
    IF r.exists THEN [r EXCEPT !.started = 1, !.current_turn = 1, !.timer_start_ms = ms]
    ELSE r

\* timer_start_ms = int(time.time() * 1000); UPDATE rooms; commit
start_game_update(t) ==
    /\ thr[t].pc = "g_update"
    /\ \/ /\ CanWrite
          /\ \E ms \in now..MaxNow : now' = ms /\ room' = StartedRow(room, ms)
          /\ UNCHANGED <<admin_attempts, call>>
          /\ Go(t, [thr[t] EXCEPT !.pc = "g_finished"])
          /\ UNCHANGED <<players, secrets, history, nextTok>>
       \/ /\ WriteTimesOut
          /\ Go(t, Reject("start_game", "Failed"))
          /\ UNCHANGED <<storeVars, now, admin_attempts, call>>
    /\ UNCHANGED <<timerVars, connected>>

\* with rooms_lock: rt['finished'] = {1: False, 2: False}
start_game_finished(t) ==
    /\ thr[t].pc = "g_finished"
    /\ rooms_lock = "free"
    /\ Step(t, IF TimersEnabled THEN [thr[t] EXCEPT !.pc = "g_cancel", !.rt = 0]
               ELSE Done("start_game", "emit", 0, "ok", NoToken, {"game_started", "state"}),
            rooms_runtime, [objs EXCEPT ![thr[t].rt].finished = NoFinished])
    /\ UNCHANGED <<storeVars, timerVars, connected, now, admin_attempts, call>>

\* start_turn_timer(room_id, 1): cancel_turn_timer
start_game_cancel(t) ==
    /\ thr[t].pc = "g_cancel"
    /\ StartTimerCancel
    /\ Go(t, [thr[t] EXCEPT !.pc = "g_start"])
    /\ UNCHANGED <<storeVars, connected, now, admin_attempts, call>>

\* start_turn_timer(room_id, 1): the new timer; emit game_started
start_game_start(t) ==
    /\ thr[t].pc = "g_start"
    /\ StartTimerCreate(1)
    /\ Go(t, Done("start_game", "emit", 0, "ok", NoToken, {"game_started", "state"}))
    /\ UNCHANGED <<storeVars, connected, now, admin_attempts, call>>

\* ------------------------------------------------------------------------
\* on_submit_guess (app.py:953-1046)
\* ------------------------------------------------------------------------
\* the submit_guess handlers of slot p that may still record a guess
Guessing(p) ==
    {t \in Threads : thr[t].op = "submit_guess" /\ thr[t].player = p
                       /\ thr[t].res = ""}

\* submit_guess requests for a slot stop when its history is full
GuessesLeft(p) == Cardinality(history[p]) + Cardinality(Guessing(p)) < MaxGuesses

\* rt = get_runtime_room(room_id); with rooms_lock: the authorization check;
\* guess = str(data.get('guess', '')).strip(); validate_number(guess)
on_submit_guess(t, c, p, v) ==
    /\ CanStart(t) /\ c \in connected
    /\ GuessesLeft(p)
    /\ CanGetRt
    /\ Step(t, IF ~Authorized(c, p) THEN Reject("submit_guess", "Unauthorized")
               ELSE IF ~validate_number(Strip(v)) THEN Reject("submit_guess", "InvalidFormat")
               ELSE [At("submit_guess", "q_select_room", p) EXCEPT !.val = Strip(v),
                                                                   !.rt = GetRt],
            GetRt, objs)
    /\ UNCHANGED <<storeVars, timerVars, connected, now, admin_attempts, call>>

\* mutant: only the missing row is tested, not the started flag
NotStartedNoRow == ~room.exists

\* not room_row or room_row['started'] == 0
NotStarted == ~room.exists \/ room.started = 0

\* mutant: the current_turn check is missing
GuessRoomCheckNoTurn(t) ==
    IF NotStarted THEN Reject("submit_guess", "NotStarted")
    ELSE [thr[t] EXCEPT !.pc = "q_select_secret"]

\* SELECT started, current_turn, timer_start_ms FROM rooms, and the two checks
GuessRoomCheck(t) ==
    IF NotStarted THEN Reject("submit_guess", "NotStarted")
    ELSE IF thr[t].player # room.current_turn THEN Reject("submit_guess", "NotYourTurn")
    ELSE [thr[t] EXCEPT !.pc = "q_select_secret"]

submit_guess_select_room(t) ==
    /\ thr[t].pc = "q_select_room"
    /\ Go(t, GuessRoomCheck(t))
    /\ UNCHANGED <<storeVars, timerVars, connected, now, admin_attempts, call>>

\* SELECT secret FROM secrets WHERE room_id=? AND player_num=opponent
submit_guess_select_secret(t) ==
    /\ thr[t].pc = "q_select_secret"
    /\ Go(t, IF secrets[Other(thr[t].player)] = NoSecret
             THEN Reject("submit_guess", "OpponentSecretMissing")
             ELSE [thr[t] EXCEPT !.pc = "q_cancel",
                                 !.secret = secrets[Other(thr[t].player)]])
    /\ UNCHANGED <<storeVars, timerVars, connected, now, admin_attempts, call>>

\* cancel_turn_timer(room_id)
submit_guess_cancel(t) ==
    /\ thr[t].pc = "q_cancel"
    /\ StartTimerCancel
    /\ Go(t, [thr[t] EXCEPT !.pc = "q_select_max"])
    /\ UNCHANGED <<storeVars, connected, now, admin_attempts, call>>

\* SELECT COALESCE(MAX(idx),0) FROM history WHERE player_num=?
MaxIdx(p) ==
    IF history[p] = {} THEN 0
    ELSE CHOOSE i \in {h.idx : h \in history[p]} : \A h \in history[p] : h.idx <= i

submit_guess_select_max(t) ==
    /\ thr[t].pc = "q_select_max"
    /\ Go(t, [thr[t] EXCEPT !.pc = "q_insert", !.mx = MaxIdx(thr[t].player)])
    /\ UNCHANGED <<storeVars, timerVars, connected, now, admin_attempts, call>>

\* matches = count_matches(guess, secret)
Matches(t) == count_matches(thr[t].val, thr[t].secret)

\* the row INSERT INTO history adds
GuessRow(t) ==
    [idx |-> thr[t].mx + 1, guess |-> thr[t].val, outcome |-> Outcome(Matches(t))]

\* PRIMARY KEY (room_id, player_num, idx): the INSERT raises IntegrityError
IdxTaken(t) == \E h \in history[thr[t].player] : h.idx = thr[t].mx + 1

\* mutant: the UPDATE has no effect
TurnRowKept(r, p) == r

\* UPDATE rooms SET current_turn=?  (no row: no effect)
TurnRow(r, p) == IF r.exists THEN [r EXCEPT !.current_turn = p] ELSE r

\* UPDATE rooms SET started=0  (no row: no effect)
StoppedRow(r) == IF r.exists THEN [r EXCEPT !.started = 0] ELSE r

\* INSERT INTO history.  A winning guess leaves the transaction open (the
\* finished flag is set before the commit); any other guess goes on to
\* UPDATE rooms SET current_turn, commit, emit guess_result, turn
submit_guess_insert(t) ==
    /\ thr[t].pc = "q_insert"
    /\ \/ /\ CanWrite /\ IdxTaken(t)
          /\ Go(t, Reject("submit_guess", "Failed"))
          /\ UNCHANGED storeVars
       \/ /\ CanWrite /\ ~IdxTaken(t) /\ Matches(t) = DIGIT_COUNT
          /\ Go(t, [thr[t] EXCEPT !.pc = "q_finished"])
          /\ UNCHANGED storeVars
       \/ /\ CanWrite /\ ~IdxTaken(t) /\ Matches(t) # DIGIT_COUNT
          /\ history' = [history EXCEPT ![thr[t].player] = @ \cup {GuessRow(t)}]
          /\ room' = TurnRow(room, Other(thr[t].player))
          /\ Go(t, Done("submit_guess", IF TimersEnabled THEN "q_tcancel" ELSE "emit",
                        thr[t].player, Outcome(Matches(t)), NoToken,
                        {"guess_result", "turn", "state"}))
          /\ UNCHANGED <<players, secrets, nextTok>>
       \/ /\ WriteTimesOut
          /\ Go(t, Reject("submit_guess", "Failed"))
          /\ UNCHANGED storeVars
    /\ UNCHANGED <<timerVars, connected, now, admin_attempts, call>>

\* with rooms_lock: rt['finished'][player] = True
submit_guess_finished(t) ==
    /\ thr[t].pc = "q_finished"
    /\ rooms_lock = "free"
    /\ Step(t, [thr[t] EXCEPT !.pc = "q_commit"], rooms_runtime,
            [objs EXCEPT ![thr[t].rt].finished[thr[t].player] = TRUE])
    /\ UNCHANGED <<storeVars, timerVars, connected, now, admin_attempts, call>>

\* UPDATE rooms SET started=0; commit; emit guess_result, game_over
submit_guess_commit(t) ==
    /\ thr[t].pc = "q_commit"
    /\ history' = [history EXCEPT ![thr[t].player] = @ \cup {GuessRow(t)}]
    /\ room' = StoppedRow(room)
    /\ Go(t, Done("submit_guess", "ret", thr[t].player, Outcome(Matches(t)), NoToken,
                  {"guess_result", "game_over"}))
    /\ UNCHANGED <<players, secrets, nextTok, timerVars, connected, now, admin_attempts, call>>

\* emit('state', public_state(room_id)), which calls get_runtime_room;
\* start_turn_timer(room_id, next_turn): cancel_turn_timer
submit_guess_tcancel(t) ==
    /\ thr[t].pc = "q_tcancel"
    /\ CanGetRt
    /\ StartTimerCancel
    /\ Step(t, [thr[t] EXCEPT !.pc = "q_tstart"], GetRt, objs)
    /\ UNCHANGED <<storeVars, connected, now, admin_attempts, call>>

\* start_turn_timer(room_id, next_turn): the new timer
submit_guess_tstart(t) ==
    /\ thr[t].pc = "q_tstart"
    /\ StartTimerCreate(Other(thr[t].player))
    /\ Go(t, [thr[t] EXCEPT !.pc = "ret"])
    /\ UNCHANGED <<storeVars, connected, now, admin_attempts, call>>

\* ------------------------------------------------------------------------
\* on_new_game (app.py:1049-1079) and admin_reset (app.py:594-625)
\* ------------------------------------------------------------------------
\* UPDATE rooms SET started=0, current_turn=1, timer_start_ms=NULL
ResetRow(r) ==
    IF r.exists THEN [r EXCEPT !.started = 0, !.current_turn = 1, !.timer_start_ms = NoTime]
    ELSE r

\* DELETE FROM secrets; DELETE FROM history; UPDATE rooms; commit
ResetTx ==
    /\ secrets' = [p \in Slots |-> NoSecret]
    /\ history' = [p \in Slots |-> {}]
    /\ room' = ResetRow(room)
    /\ UNCHANGED <<players, nextTok>>

\* any connection may ask; the three statements and the commit
on_new_game(t) ==
    /\ CanStart(t) /\ connected # {}
    /\ \/ /\ CanWrite
          /\ ResetTx
          /\ Go(t, At("new_game", "n_getrt", 0))
       \/ /\ WriteTimesOut
          /\ Go(t, Reject("new_game", "Failed"))
          /\ UNCHANGED storeVars
    /\ UNCHANGED <<timerVars, connected, now, admin_attempts, call>>

\* rt = get_runtime_room(room_id)
new_game_getrt(t) ==
    /\ thr[t].pc = "n_getrt"
    /\ CanGetRt
    /\ Step(t, [thr[t] EXCEPT !.rt = GetRt, !.pc = "n_finished"], GetRt, objs)
    /\ UNCHANGED <<storeVars, timerVars, connected, now, admin_attempts, call>>

\* with rooms_lock: rt['finished'] = {1: False, 2: False}
new_game_finished(t) ==
    /\ thr[t].pc = "n_finished"
    /\ rooms_lock = "free"
    /\ Step(t, [thr[t] EXCEPT !.pc = "n_cancel", !.rt = 0], rooms_runtime,
            [objs EXCEPT ![thr[t].rt].finished = NoFinished])
    /\ UNCHANGED <<storeVars, timerVars, connected, now, admin_attempts, call>>

\* cancel_turn_timer(room_id); emit system
new_game_cancel(t) ==
    /\ thr[t].pc = "n_cancel"
    /\ StartTimerCancel
    /\ Go(t, Done("new_game", "emit", 0, "ok", NoToken, {"system", "state"}))
    /\ UNCHANGED <<storeVars, connected, now, admin_attempts, call>>

\* an authorised POST /admin/reset/<room_id>: the three statements and the commit
admin_reset(t) ==
    /\ CanStart(t)
    /\ \/ /\ CanWrite
          /\ ResetTx
          /\ Go(t, At("admin_reset", "a_getrt", 0))
       \/ /\ WriteTimesOut
          /\ Go(t, Reject("admin_reset", "Failed"))
          /\ UNCHANGED storeVars
    /\ UNCHANGED <<timerVars, connected, now, admin_attempts, call>>

admin_reset_getrt(t) ==
    /\ thr[t].pc = "a_getrt"
    /\ CanGetRt
    /\ Step(t, [thr[t] EXCEPT !.rt = GetRt, !.pc = "a_finished"], GetRt, objs)
    /\ UNCHANGED <<storeVars, timerVars, connected, now, admin_attempts, call>>

admin_reset_finished(t) ==
    /\ thr[t].pc = "a_finished"
    /\ rooms_lock = "free"
    /\ Step(t, [thr[t] EXCEPT !.pc = "a_cancel", !.rt = 0], rooms_runtime,
            [objs EXCEPT ![thr[t].rt].finished = NoFinished])
    /\ UNCHANGED <<storeVars, timerVars, connected, now, admin_attempts, call>>

\* cancel_turn_timer(room_id); redirect
admin_reset_cancel(t) ==
    /\ thr[t].pc = "a_cancel"
    /\ StartTimerCancel
    /\ Go(t, Done("admin_reset", "ret", 0, "redirect", NoToken, {}))
    /\ UNCHANGED <<storeVars, connected, now, admin_attempts, call>>

\* ------------------------------------------------------------------------
\* admin_kill (app.py:560-591)
\* ------------------------------------------------------------------------
\* an authorised POST /admin/kill/<room_id>:
\* DELETE FROM secrets, history, players, rooms; commit
admin_kill(t) ==
    /\ CanStart(t)
    /\ \/ /\ CanWrite
          /\ secrets' = [p \in Slots |-> NoSecret]
          /\ history' = [p \in Slots |-> {}]
          /\ players' = [p \in Slots |-> NoToken]
          /\ room' = NoRoom
          /\ Go(t, At("admin_kill", "k_pop", 0))
          /\ UNCHANGED nextTok
       \/ /\ WriteTimesOut
          /\ Go(t, Reject("admin_kill", "Failed"))
          /\ UNCHANGED storeVars
    /\ UNCHANGED <<timerVars, connected, now, admin_attempts, call>>

\* with rooms_lock: rooms_runtime.pop(room_id, None)
admin_kill_pop(t) ==
    /\ thr[t].pc = "k_pop"
    /\ rooms_lock = "free"
    /\ Step(t, [thr[t] EXCEPT !.pc = "k_cancel"], 0, objs)
    /\ UNCHANGED <<storeVars, timerVars, connected, now, admin_attempts, call>>

\* cancel_turn_timer(room_id); redirect
admin_kill_cancel(t) ==
    /\ thr[t].pc = "k_cancel"
    /\ StartTimerCancel
    /\ Go(t, Done("admin_kill", "ret", 0, "redirect", NoToken, {}))
    /\ UNCHANGED <<storeVars, connected, now, admin_attempts, call>>

\* ------------------------------------------------------------------------
\* The timer thread: timeout_callback and handle_turn_timeout (app.py:312-352)
\* ------------------------------------------------------------------------
\* threading.Timer: the interval has passed and cancel() has not been called
Fire(k) ==
    /\ Running < MaxRunning
    /\ timer[k].st = "waiting"
    /\ timer' = [timer EXCEPT ![k].st = "cb"]
    /\ UNCHANGED <<storeVars, regVars, turn_timers, thr, connected, now, admin_attempts, call>>

\* with timers_lock: turn_timers.pop(room_id, None)
timeout_callback(k) ==
    /\ timer[k].st = "cb"
    /\ turn_timers' = 0
    /\ timer' = [timer EXCEPT ![k].st = "h_select"]
    /\ UNCHANGED <<storeVars, regVars, thr, connected, now, admin_attempts, call>>

\* SELECT started FROM rooms; if not row or not row['started']: return
handle_turn_timeout_select(k) ==
    /\ timer[k].st = "h_select"
    /\ timer' = [timer EXCEPT ![k] = IF NotStarted THEN FreeTimer
                                     ELSE [@ EXCEPT !.st = "h_update"]]
    /\ UNCHANGED <<storeVars, regVars, turn_timers, thr, connected, now, admin_attempts, call>>

\* next_turn = 2 if player == 1 else 1; UPDATE rooms SET current_turn; commit;
\* emit system ('Player p timed out.') and turn to the room
handle_turn_timeout_update(k) ==
    /\ timer[k].st = "h_update"
    /\ \/ /\ CanWrite
          /\ room' = TurnRow(room, Other(timer[k].player))
          /\ timer' = [timer EXCEPT ![k] =
                          IF TimersEnabled
                          THEN [@ EXCEPT !.st = "h_cancel", !.bcast = {"system", "turn"}]
                          ELSE FreeTimer]
       \/ /\ WriteTimesOut
          /\ timer' = [timer EXCEPT ![k] = FreeTimer]
          /\ UNCHANGED room
    /\ UNCHANGED <<players, secrets, history, nextTok, regVars,
                   turn_timers, thr, connected, now, admin_attempts, call>>

\* emit state (public_state calls get_runtime_room);
\* start_turn_timer(room_id, next_turn): cancel_turn_timer
handle_turn_timeout_cancel(k) ==
    /\ timer[k].st = "h_cancel"
    /\ CanGetRt
    /\ rooms_runtime' = GetRt
    /\ objs' = Collect(objs, GetRt, thr)
    /\ timer' = [cancel_turn_timer(timer) EXCEPT ![k].st = "h_start",
                                                  ![k].bcast = @ \cup {"state"}]
    /\ turn_timers' = 0
    /\ UNCHANGED <<storeVars, thr, connected, now, admin_attempts, call>>

\* start_turn_timer(room_id, next_turn): the new timer; this timer's thread ends
handle_turn_timeout_start(k) ==
    /\ timer[k].st = "h_start"
    /\ LET free == FreeTimers \cup {k}
           n == CHOOSE i \in free : \A j \in free : i <= j
       IN /\ timer' = [[timer EXCEPT ![k] = FreeTimer]
                          EXCEPT ![n] = WaitingTimer(Other(timer[k].player))]
          /\ turn_timers' = n
    /\ UNCHANGED <<storeVars, regVars, thr, connected, now, admin_attempts, call>>

\* ------------------------------------------------------------------------
\* Specifications
\* ------------------------------------------------------------------------
\* a handler thread's last step
EndStep(t) == Return(t) \/ EmitState(t)

\* the requests and steps of on_set_secret and on_reset_secret
SecretStep(t) ==
    \/ \E c \in Conns, p \in Slots, v \in SecretInputs : on_set_secret(t, c, p, v)
    \/ set_secret_select(t) \/ set_secret_insert(t)
    \/ \E c \in Conns, p \in Slots : on_reset_secret(t, c, p)
    \/ reset_secret_select(t) \/ reset_secret_delete(t)

\* the request and steps of on_start_game
StartStep(t) ==
    \/ on_start_game(t) \/ start_game_count(t) \/ start_game_update(t)
    \/ start_game_finished(t) \/ start_game_cancel(t) \/ start_game_start(t)

\* a submit_guess request
GuessRequest(t) ==
    \E c \in Conns, p \in Slots, v \in GuessInputs : on_submit_guess(t, c, p, v)

\* a submit_guess request for a slot that has no guess recorded or in flight
FirstGuessRequest(t) ==
    \E c \in Conns, p \in Slots, v \in GuessInputs :
        /\ history[p] = {} /\ Guessing(p) = {}
        /\ on_submit_guess(t, c, p, v)

\* the steps of on_submit_guess
GuessWork(t) ==
    \/ submit_guess_select_room(t)
    \/ submit_guess_select_secret(t) \/ submit_guess_cancel(t)
    \/ submit_guess_select_max(t) \/ submit_guess_insert(t)
    \/ submit_guess_finished(t) \/ submit_guess_commit(t)
    \/ submit_guess_tcancel(t) \/ submit_guess_tstart(t)

\* the request and steps of on_new_game
NewGameStep(t) ==
    on_new_game(t) \/ new_game_getrt(t) \/ new_game_finished(t) \/ new_game_cancel(t)

\* the requests and steps of the game handlers
GameStep(t) ==
    SecretStep(t) \/ StartStep(t) \/ GuessRequest(t) \/ GuessWork(t) \/ NewGameStep(t)

\* the same, every slot guessing once
FirstGuessGameStep(t) ==
    SecretStep(t) \/ StartStep(t) \/ FirstGuessRequest(t) \/ GuessWork(t) \/ NewGameStep(t)

\* the requests and steps of on_join_room
JoinStep(t) ==
    \/ \E c \in Conns, d \in 0..2, k \in JoinTokens : on_join_room(t, c, d, k)
    \/ join_getrt(t) \/ join_select_token(t)
    \/ join_rebind(t) \/ join_touch(t) \/ join_select_slot(t)
    \/ join_bind(t) \/ join_insert(t)

\* the requests and steps of the connection handlers
ConnStep(t) ==
    \/ JoinStep(t)
    \/ \E c \in Conns : on_disconnect(t, c)
    \/ \E c \in Conns, p \in Slots : on_leave_room(t, c, p)

\* the requests and steps of the admin routes
AdminStep(t) ==
    \/ admin_reset(t) \/ admin_reset_getrt(t) \/ admin_reset_finished(t)
    \/ admin_reset_cancel(t)
    \/ admin_kill(t) \/ admin_kill_pop(t) \/ admin_kill_cancel(t)

TimerStep(k) ==
    \/ Fire(k) \/ timeout_callback(k) \/ handle_turn_timeout_select(k)
    \/ handle_turn_timeout_update(k)
    \/ handle_turn_timeout_cancel(k) \/ handle_turn_timeout_start(k)

\* every request and every step of the server
Next ==
    \/ \E t \in Threads : GameStep(t) \/ ConnStep(t) \/ AdminStep(t) \/ EndStep(t)
    \/ \E k \in TimerIds : TimerStep(k)

Spec == Init /\ [][Next]_vars

\* ------------------------------------------------------------------------
\* The game between two players who have joined
\* ------------------------------------------------------------------------
\* the room's dictionary after c1 has joined as player 1 and c2 as player 2
JoinedRt == [EmptyRt EXCEPT !.players = [p \in Slots |-> IF p = 1 THEN "c1" ELSE "c2"]]

\* the state after c1 has joined as player 1 and c2 as player 2
InitJoined ==
    /\ room = NewRoom
    /\ players = [p \in Slots |-> Token(p, 1)]
    /\ secrets = [p \in Slots |-> NoSecret]
    /\ history = [p \in Slots |-> {}]
    /\ rooms_runtime = 1
    /\ objs = [o \in ObjIds |-> IF o = 1 THEN JoinedRt ELSE EmptyRt]
    /\ turn_timers = 0
    /\ timer = [k \in TimerIds |-> FreeTimer]
    /\ thr = [t \in Threads |-> Idle]
    /\ connected = Conns
    /\ nextTok = [p \in Slots |-> 2]
    /\ now = 1
    /\ admin_attempts = [ip \in Ips |-> <<>>]
    /\ call = [fn |-> "none"]

NextGame ==
    \/ \E t \in Threads : FirstGuessGameStep(t) \/ EndStep(t)
    \/ \E k \in TimerIds : TimerStep(k)

SpecGame == InitJoined /\ [][NextGame]_vars

\* ------------------------------------------------------------------------
\* Connections: joining, rejoining, leaving and dropping, in the lobby of a
\* new room and during a game
\* ------------------------------------------------------------------------
\* the state after c1 and c2 have joined, both have set the secret 1234, and
\* start_game has run
InitPlaying ==
    /\ room = StartedRow(NewRoom, 1)
    /\ players = [p \in Slots |-> Token(p, 1)]
    /\ secrets = [p \in Slots |-> S1234]
    /\ history = [p \in Slots |-> {}]
    /\ rooms_runtime = 1
    /\ objs = [o \in ObjIds |-> IF o = 1 THEN JoinedRt ELSE EmptyRt]
    /\ turn_timers = 1
    /\ timer = [k \in TimerIds |-> IF k = 1 THEN WaitingTimer(1)
                                   ELSE FreeTimer]
    /\ thr = [t \in Threads |-> Idle]
    /\ connected = Conns
    /\ nextTok = [p \in Slots |-> 2]
    /\ now = 1
    /\ admin_attempts = [ip \in Ips |-> <<>>]
    /\ call = [fn |-> "none"]

NextConn == \E t \in Threads : ConnStep(t) \/ EndStep(t)

SpecConn == (Init \/ InitPlaying) /\ [][NextConn]_vars

\* ------------------------------------------------------------------------
\* Authorization: the handlers that check the caller's binding, next to
\* join_room, which changes it
\* ------------------------------------------------------------------------
\* the requests and steps of on_set_secret, on_reset_secret, on_submit_guess
BoundStep(t) == SecretStep(t) \/ FirstGuessRequest(t) \/ GuessWork(t)

NextAuth == \E t \in Threads : JoinStep(t) \/ BoundStep(t) \/ EndStep(t)

SpecAuth == (Init \/ InitJoined \/ InitPlaying) /\ [][NextAuth]_vars

\* ------------------------------------------------------------------------
\* One request at a time: every handler and route, served by one thread, next
\* to the timer threads
\* ------------------------------------------------------------------------
NextSerial ==
    \/ FirstGuessGameStep("t1") \/ JoinStep("t1") \/ AdminStep("t1") \/ EndStep("t1")
    \/ \E k \in TimerIds : TimerStep(k)

SpecSerial == Init /\ [][NextSerial]_vars

\* ------------------------------------------------------------------------
\* The guess histories: a started game in which the slots guess up to
\* MaxGuesses times, turns pass by guesses and by timeouts, and new_game may
\* come at any moment
\* ------------------------------------------------------------------------
NextHist ==
    \/ \E t \in Threads : GuessRequest(t) \/ GuessWork(t) \/ NewGameStep(t) \/ EndStep(t)
    \/ \E k \in TimerIds : TimerStep(k)

SpecHist == InitPlaying /\ [][NextHist]_vars

\* the same with the server's scheduling: a handler that can take its next step
\* takes it, and a timer that is set fires and runs its callback; clients are
\* free to send nothing
SpecIdle ==
    /\ SpecHist
    /\ \A t \in Threads :
          WF_vars(GuessWork(t) \/ new_game_getrt(t) \/ new_game_finished(t)
                    \/ new_game_cancel(t) \/ EndStep(t))
    /\ \A k \in TimerIds : WF_vars(TimerStep(k))

\* ------------------------------------------------------------------------
\* /admin/kill next to the handlers of the players and the timer thread
\* ------------------------------------------------------------------------
SpecKill ==
    /\ InitJoined \/ InitPlaying
    /\ [][\/ admin_kill("t2") \/ admin_kill_pop("t2") \/ admin_kill_cancel("t2")
           \/ JoinStep("t1") \/ BoundStep("t1")
           \/ \E t \in Threads : EndStep(t)
           \/ \E k \in TimerIds : TimerStep(k)]_vars

\* ------------------------------------------------------------------------
\* A started game with nothing but guesses and turn timeouts
\* ------------------------------------------------------------------------
SpecTurn ==
    /\ InitPlaying
    /\ [][\/ \E t \in Threads : GuessRequest(t) \/ GuessWork(t) \/ Return(t)
           \/ \E k \in TimerIds : TimerStep(k)]_vars

\* ------------------------------------------------------------------------
\* The admin routes: admin_required, check_admin_rate_limit, secrets_equal
\* (app.py:260-284, 482-530)
\* ------------------------------------------------------------------------
\* ADMIN_KEY of config.py, its default
ADMIN_KEY == <<"c", "h", "a", "n", "g", "e", "m", "e">>
ADMIN_RATE_LIMIT == 5
\* window = 60 of check_admin_rate_limit, in seconds
window == 60

\* mutant: the comparison without the length test; zip stops at the shorter
secrets_equal_zip(a, b) ==
    LET n == IF Len(a) < Len(b) THEN Len(a) ELSE Len(b)
    IN  \A i \in 1 .. n : a[i] = b[i]

\* secrets_equal(a, b): False on different lengths, else result |= ord(x) ^ ord(y)
\* over zip(a, b), and result == 0
secrets_equal(a, b) ==
    LET Lower == <<"a", "b", "c", "d", "e", "f", "g", "h", "i", "j", "k", "l", "m",
                   "n", "o", "p", "q", "r", "s", "t", "u", "v", "w", "x", "y", "z">>
        Upper == <<"A", "B", "C", "D", "E", "F", "G", "H", "I", "J", "K", "L", "M",
                   "N", "O", "P", "Q", "R", "S", "T", "U", "V", "W", "X", "Y", "Z">>
        ord(ch) == IF \E i \in 1 .. 26 : Lower[i] = ch
                   THEN 96 + (CHOOSE i \in 1 .. 26 : Lower[i] = ch)
                   ELSE 64 + (CHOOSE i \in 1 .. 26 : Upper[i] = ch)
        RECURSIVE Xor(_, _)
        Xor(x, y) == IF x = 0 /\ y = 0 THEN 0
                     ELSE (((x % 2) + (y % 2)) % 2) + 2 * Xor(x \div 2, y \div 2)
        RECURSIVE BitOr(_, _)
        BitOr(x, y) == IF x = 0 /\ y = 0 THEN 0
                       ELSE (IF (x % 2) + (y % 2) > 0 THEN 1 ELSE 0) + 2 * BitOr(x \div 2, y \div 2)
        RECURSIVE result(_)
        result(i) == IF i = 0 THEN 0
                     ELSE BitOr(result(i - 1), Xor(ord(a[i]), ord(b[i])))
    IN  IF Len(a) # Len(b) THEN FALSE ELSE result(Len(a)) = 0

\* mutant: the limit is tested with > instead of >=
check_admin_rate_limit_over(ip, tm) ==
    LET kept == SelectSeq(admin_attempts[ip], LAMBDA t : tm - t < window)
    IN  IF Len(kept) > ADMIN_RATE_LIMIT
        THEN [ok |-> FALSE, attempts |-> kept]
        ELSE [ok |-> TRUE, attempts |-> Append(kept, tm)]

\* check_admin_rate_limit(ip) at time tm, under admin_attempts_lock: drops the
\* attempts outside the window, refuses at ADMIN_RATE_LIMIT kept attempts,
\* records the attempt otherwise
check_admin_rate_limit(ip, tm) ==
    LET kept == SelectSeq(admin_attempts[ip], LAMBDA t : tm - t < window)
    IN  IF Len(kept) >= ADMIN_RATE_LIMIT
        THEN [ok |-> FALSE, attempts |-> kept]
        ELSE [ok |-> TRUE, attempts |-> Append(kept, tm)]

\* GET /admin from ip with header X-Admin-Key = hdr and query argument key = arg
\* (<<>> is an absent or empty value, which "or" and "if not key" treat alike),
\* at a clock reading tm, one every 20 seconds:
\* the wrapper of admin_required, then admin() renders the panel; the thread
\* keeps the caller in conn and the key it read in val
admin_required(t, ip, hdr, arg) ==
    /\ CanStart(t)
    /\ \E tm \in {1 + 20 * i : i \in 0 .. MaxTicks} :
          /\ tm >= now /\ now' = tm
          /\ LET limit == check_admin_rate_limit(ip, tm)
                 key == IF hdr # <<>> THEN hdr ELSE arg
                 status == IF ~limit.ok THEN "429"
                           ELSE IF key = <<>> THEN "401"
                           ELSE IF ~secrets_equal(key, ADMIN_KEY) THEN "403"
                           ELSE "200"
             IN  /\ admin_attempts' = [admin_attempts EXCEPT ![ip] = limit.attempts]
                 /\ Go(t, [Idle EXCEPT !.op = "admin", !.pc = "ret", !.res = status,
                                        !.conn = ip, !.val = key])
    /\ UNCHANGED <<storeVars, timerVars, connected, call>>

\* admin requests alone, served one after the other: without a key, with
\* ADMIN_KEY, and with keys that differ in letter case, in a character and in
\* length
SpecAdmin ==
    /\ Init
    /\ [][\/ \E ip \in Ips,
                 hdr \in {<<>>, ADMIN_KEY,
                          <<"C", "h", "a", "n", "g", "e", "m", "e">>,
                          <<"c", "h", "a", "n", "g", "e", "m", "f">>,
                          <<"c", "h", "a", "n", "g", "e", "m">>,
                          <<"c", "h", "a", "n", "g", "e", "m", "e", "e">>},
                 arg \in {<<>>, ADMIN_KEY} :
                 admin_required("t1", ip, hdr, arg)
           \/ Return("t1")]_vars

\* ------------------------------------------------------------------------
\* validate_number and count_matches called on their own (app.py:205-238)
\* ------------------------------------------------------------------------
\* count_matches(g, s) is called with two 4-digit strings over three digits
call_count_matches ==
    /\ call = [fn |-> "none"]
    /\ \E g, s \in [1 .. DIGIT_COUNT -> {"0", "1", "9"}] :
          call' = [fn |-> "count_matches", args |-> <<g, s>>, returned |-> FALSE]
    /\ UNCHANGED <<storeVars, regVars, timerVars, thr, connected, now, admin_attempts>>

\* validate_number(v) is called with None or "" (both empty here: "not value"),
\* or a string of up to DIGIT_COUNT + 1 characters among ASCII digits, a
\* letter, a sign, a dot, a space, a fullwidth digit and a superscript digit
call_validate_number ==
    /\ call = [fn |-> "none"]
    /\ \E v \in UNION {[1 .. n -> {"0", "1", "9", "a", "-", ".", " ", "fw1", "sup2"}] :
                          n \in 0 .. DIGIT_COUNT}
                 \cup {<<"1", "2", "3", "4", "5">>, <<" ", "1", "2", "3", "4">>,
                       <<"1", "2", "3", "4", " ">>} :
          call' = [fn |-> "validate_number", args |-> <<v>>, returned |-> FALSE]
    /\ UNCHANGED <<storeVars, regVars, timerVars, thr, connected, now, admin_attempts>>

\* the call returns its value, or raises ValueError from int()
call_returns ==
    /\ call.fn # "none" /\ ~call.returned
    /\ call' = [fn |-> call.fn, args |-> call.args, returned |-> TRUE,
                value |-> IF call.fn = "count_matches"
                          THEN count_matches(call.args[1], call.args[2])
                          ELSE IF ValidateRaises(call.args[1]) THEN "ValueError"
                          ELSE IF validate_number(call.args[1]) THEN "True" ELSE "False"]
    /\ UNCHANGED <<storeVars, regVars, timerVars, thr, connected, now, admin_attempts>>

SpecCalls == Init /\ [][call_count_matches \/ call_validate_number \/ call_returns]_vars

\* ------------------------------------------------------------------------
\* Store failures: a write statement of a handler raises sqlite3.Error
\* ------------------------------------------------------------------------
\* the INSERT of on_join_room (app.py:756-759) or of on_submit_guess
\* (app.py:1022-1025) raises: the handler's except clause logs the error and
\* emits the generic failure to the caller (app.py:767-769, 1044-1046)
store_write_fails(t) ==
    /\ thr[t].pc \in {"j_insert", "q_insert"}
    /\ Go(t, Reject(thr[t].op, "Failed"))
    /\ UNCHANGED <<storeVars, timerVars, connected, now, admin_attempts, call>>

\* one request at a time (join_room, submit_guess) against a store whose
\* writes may fail, next to the timer threads
SpecFail ==
    /\ Init \/ InitPlaying
    /\ [][\/ JoinStep("t1") \/ FirstGuessRequest("t1") \/ GuessWork("t1")
          \/ store_write_fails("t1") \/ EndStep("t1")
          \/ \E k \in TimerIds : TimerStep(k)]_vars

\* ------------------------------------------------------------------------
\* Time passes during a game
\* ------------------------------------------------------------------------
\* time.time() (app.py:931) would return a later value from now on
Tick ==
    /\ now < MaxTime
    /\ now' = now + 1
    /\ UNCHANGED <<storeVars, regVars, timerVars, thr, connected, admin_attempts, call>>

\* a started game, one request at a time: guesses and turn timeouts while
\* the clock advances
SpecClock ==
    /\ InitPlaying
    /\ [][\/ GuessRequest("t1") \/ GuessWork("t1") \/ Return("t1")
          \/ \E k \in TimerIds : TimerStep(k)
          \/ Tick]_vars

\* ------------------------------------------------------------------------
\* on_create_room (app.py:658-684)
\* ------------------------------------------------------------------------
\* gen_room_code() returns the identifier of the room of this model, which
\* may exist (codes are drawn at random, with no check against the store);
\* INSERT OR REPLACE INTO rooms(...) VALUES(room_id, now, 0, 1, None); commit
on_create_room(t) ==
    /\ CanStart(t)
    /\ \/ /\ CanWrite
          /\ room' = NewRoom
          /\ Go(t, At("create_room", "c_getrt", 0))
          /\ UNCHANGED <<players, secrets, history, nextTok>>
       \/ /\ WriteTimesOut
          /\ Go(t, Reject("create_room", "Failed"))
          /\ UNCHANGED storeVars
    /\ UNCHANGED <<timerVars, connected, now, admin_attempts, call>>

\* get_runtime_room(room_id); emit('room_created', {'room_id': room_id})
create_room_getrt(t) ==
    /\ thr[t].pc = "c_getrt"
    /\ CanGetRt
    /\ Step(t, Done("create_room", "ret", 0, "room_created", NoToken, {}), GetRt, objs)
    /\ UNCHANGED <<storeVars, timerVars, connected, now, admin_attempts, call>>

\* rooms are created and deleted, one request at a time, next to the guesses
\* and timers of a game
SpecCreate ==
    /\ Init \/ InitPlaying
    /\ [][\/ on_create_room("t1") \/ create_room_getrt("t1")
          \/ admin_kill("t1") \/ admin_kill_pop("t1") \/ admin_kill_cancel("t1")
          \/ GuessRequest("t1") \/ GuessWork("t1") \/ Return("t1")
          \/ \E k \in TimerIds : TimerStep(k)]_vars

\* ------------------------------------------------------------------------
\* A started game whose players come and go
\* ------------------------------------------------------------------------
\* the steps of a join_room, leave_room or disconnect handler after its request
ConnWork(t) ==
    \/ join_getrt(t) \/ join_select_token(t) \/ join_rebind(t) \/ join_touch(t)
    \/ join_select_slot(t) \/ EndStep(t)

\* the players of a started game join again, leave and disconnect while the
\* turn timer runs; a handler that can take its next step takes it, and a
\* timer that is set fires and runs its callback
SpecLive ==
    /\ InitPlaying
    /\ [][\/ \E c \in Conns, d \in 0..2, k \in JoinTokens : on_join_room("t1", c, d, k)
          \/ \E c \in Conns : on_disconnect("t1", c)
          \/ \E c \in Conns, p \in Slots : on_leave_room("t1", c, p)
          \/ ConnWork("t1")
          \/ \E k \in TimerIds : TimerStep(k)]_vars
    /\ WF_vars(ConnWork("t1"))
    /\ \A k \in TimerIds : WF_vars(TimerStep(k))

\* ------------------------------------------------------------------------
\* Claims C1..C10
\* ------------------------------------------------------------------------
ScopedOps ==
    {"join_room", "set_secret", "reset_secret", "start_game", "submit_guess", "new_game"}

\* the handlers that have made their first read of the room's state and have
\* not yet made their last write (the timer reschedule included)
InScope == {t \in Threads : thr[t].op \in ScopedOps /\ thr[t].pc \notin {"ret", "emit"}}

\* the turn-timeout handlers between their read of started and their reschedule
TimeoutsInScope == {k \in TimerIds : timer[k].st \in {"h_update", "h_cancel", "h_start"}}

\* C1: no two handlers among join_room, set_secret, reset_secret, start_game,
\* submit_guess, new_game and the turn-timeout handler are at the same time
\* between their first read and their last write of the room's state.
C1_MutualExclusion == Cardinality(InScope) + Cardinality(TimeoutsInScope) <= 1

\* the step in which handler t commits a non-winning guess
NonWinningGuess(t) == submit_guess_insert(t) /\ history' # history

\* C2: every accepted non-winning guess and every turn-timeout handled while
\* the room is started changes current_turn from the current slot to the other
\* slot; an accepted winning guess leaves current_turn as it is and sets
\* started to false.
C2_TurnAlternates ==
    [][/\ \A t \in Threads :
            NonWinningGuess(t) => room'.current_turn = Other(room.current_turn)
       /\ \A k \in TimerIds :
            handle_turn_timeout_update(k) /\ room.started = 1
                => room'.current_turn = Other(room.current_turn)
       /\ \A t \in Threads :
            submit_guess_commit(t)
                => room'.current_turn = room.current_turn /\ room'.started = 0]_vars

C4_StartedHasBothSecrets ==
    /\ room.started = 1 => \A p \in Slots : secrets[p] # NoSecret
    /\ \A t \in Threads : thr[t].res # "OpponentSecretMissing"

\* C5: a submit_guess with a valid value from the connection bound to slot p
\* is rejected with the not-started error when the room is not started or
\* does not exist, and with the not-your-turn error when p is not
\* current_turn; up to and including the rejection (the step in which an idle
\* thread takes the request, and the step of the check) the handler appends no
\* guess, leaves the room's row as it is and neither cancels nor schedules a
\* turn timer.
C5_GuessRejected ==
    [][\A t \in Threads :
         /\ thr[t].op = "idle" /\ thr'[t].op = "submit_guess"
                => UNCHANGED <<history, room, timerVars>>
         /\ submit_guess_select_room(t) /\ (~room.exists \/ room.started = 0)
                => /\ thr'[t].pc = "ret" /\ thr'[t].res = "NotStarted"
                   /\ UNCHANGED <<history, room, timerVars>>
         /\ submit_guess_select_room(t) /\ room.exists /\ room.started = 1
              /\ thr[t].player # room.current_turn
                => /\ thr'[t].pc = "ret" /\ thr'[t].res = "NotYourTurn"
                   /\ UNCHANGED <<history, room, timerVars>>]_vars

\* a guess out of turn has been rejected; the turn timer is still scheduled
C5_Witness ==
    /\ \E t \in Threads : thr[t].op = "submit_guess" /\ thr[t].res = "NotYourTurn"
    /\ room.started = 1
    /\ turn_timers # 0 /\ timer[turn_timers].st = "waiting"
    /\ \A p \in Slots : history[p] = {}

\* the number of positions at which g and s carry the same digit
SamePositions(g, s) == Cardinality({i \in 1..4 : g[i] = s[i]})

\* C6: a guess accepted for insertion takes the winning path exactly when it
\* equals the opponent's secret; the winning path sets finished[p] in the
\* registry and ends with one record with the win outcome added to the
\* guesser's history, started false, game_over announced for winner p, and no
\* turn timer scheduled for the room.
C6_WinningGuess ==
    [][\A t \in Threads :
         /\ submit_guess_insert(t) /\ CanWrite /\ ~IdxTaken(t)
                => (thr'[t].pc = "q_finished" <=> thr[t].val = thr[t].secret)
         /\ submit_guess_finished(t)
                => objs'[rooms_runtime'].finished[thr[t].player]
         /\ submit_guess_commit(t)
                => /\ thr[t].val = thr[t].secret
                   /\ \E r \in history'[thr[t].player] :
                        /\ r \notin history[thr[t].player]
                        /\ history'[thr[t].player] = history[thr[t].player] \cup {r}
                        /\ r.guess = thr[t].val /\ r.outcome = "Correct! You win!"
                   /\ history'[Other(thr[t].player)] = history[Other(thr[t].player)]
                   /\ room'.started = 0
                   /\ "game_over" \in thr'[t].bcast /\ thr'[t].player = thr[t].player
                   /\ turn_timers' = 0
                   /\ \A k \in TimerIds : timer'[k].st # "waiting"]_vars

\* C7: a guess accepted for insertion that differs from the opponent's secret
\* adds exactly one record to the guesser's history and none to the
\* opponent's, its outcome being the number of positions at which guess and
\* secret agree; the handler's cancel step leaves no registered turn timer
\* waiting, and its last step registers a waiting turn timer for the opponent.
C7_NonWinningGuess ==
    [][\A t \in Threads :
         /\ submit_guess_insert(t) /\ CanWrite /\ ~IdxTaken(t)
              /\ thr[t].val # thr[t].secret
                => /\ \E r \in history'[thr[t].player] :
                        /\ r \notin history[thr[t].player]
                        /\ history'[thr[t].player] = history[thr[t].player] \cup {r}
                        /\ r.guess = thr[t].val
                        /\ r.outcome =
                             ToString(SamePositions(thr[t].val, thr[t].secret)) \o " correct"
                   /\ history'[Other(thr[t].player)] = history[Other(thr[t].player)]
         /\ submit_guess_cancel(t)
                => /\ turn_timers' = 0
                   /\ turn_timers # 0 => timer'[turn_timers].st # "waiting"
         /\ submit_guess_tstart(t)
                => /\ turn_timers' # 0
                   /\ timer'[turn_timers'] =
                        [st |-> "waiting", player |-> Other(thr[t].player),
                         bcast |-> {}]]_vars

\* a guess with two digits in place has been recorded, the turn has passed to
\* the opponent and the opponent's turn timer is scheduled
C7_Witness ==
    \E t \in Threads :
        /\ thr[t].op = "submit_guess" /\ thr[t].pc = "ret" /\ thr[t].res = "2 correct"
        /\ \E r \in history[thr[t].player] : r.guess = S1243 /\ r.outcome = "2 correct"
        /\ history[Other(thr[t].player)] = {}
        /\ room.current_turn = Other(thr[t].player)
        /\ turn_timers # 0
        /\ timer[turn_timers] = [st |-> "waiting", player |-> Other(thr[t].player), bcast |-> {}]

\* C8: start_game is rejected with the both-players-must-set error and
\* changes nothing when it counts fewer than 2 committed secrets; when it
\* counts 2 it sets started, current_turn = 1 and the timer start to the
\* current time in one write, then sets both finished flags to false, then
\* registers a waiting turn timer for slot 1.
C8_StartGame ==
    [][\A t \in Threads :
         /\ on_start_game(t) => UNCHANGED <<storeVars, timerVars>>
         /\ start_game_count(t) /\ (\E p \in Slots : secrets[p] = NoSecret)
                => /\ thr'[t].pc = "ret" /\ thr'[t].res = "NotEnoughPlayers"
                   /\ UNCHANGED <<storeVars, timerVars, rooms_runtime>>
                   /\ objs'[rooms_runtime] = objs[rooms_runtime]
         /\ start_game_count(t) /\ (\A p \in Slots : secrets[p] # NoSecret)
                => thr'[t].pc = "g_update"
         /\ start_game_update(t)
                => /\ room'.started = 1 /\ room'.current_turn = 1
                   /\ room'.timer_start_ms = now' /\ now' >= now
                   /\ UNCHANGED <<players, secrets, history>>
         /\ start_game_finished(t)
                => \A p \in Slots : ~objs'[rooms_runtime'].finished[p]
         /\ start_game_start(t)
                => /\ turn_timers' # 0
                   /\ timer'[turn_timers'] = [st |-> "waiting", player |-> 1, bcast |-> {}]]_vars

\* start_game has run to its end in a room whose turn had passed to slot 2
\* and whose slot 1 had finished: the room is started, it is slot 1's turn, no
\* finished flag is set and slot 1's turn timer is scheduled
C8_Witness ==
    /\ \E t \in Threads : thr[t].op = "start_game" /\ thr[t].pc = "emit"
    /\ room.started = 1 /\ room.current_turn = 1 /\ room.timer_start_ms = now
    /\ \A p \in Slots : ~objs[rooms_runtime].finished[p]
    /\ turn_timers # 0 /\ timer[turn_timers] = [st |-> "waiting", player |-> 1, bcast |-> {}]
    /\ \E p \in Slots : history[p] # {}

\* C9: a join_room carrying a token that the store maps to a slot goes on to
\* bind the calling connection to that slot: it is never left waiting for a
\* registry lock that its holder does not release.
C9_TokenRejoinBinds ==
    \A t \in Threads :
        (/\ thr[t].op = "join_room"
         /\ thr[t].pc \in {"j_getrt", "j_rebind"}
         /\ SlotsOfToken(thr[t].tok) # {})
            => rooms_lock = "free"

\* C10: a join_room without a valid token for a slot that has a stored token
\* is rejected with the slot-taken error and changes neither the token nor
\* the binding; a connection is bound to a slot that has a stored token only
\* by a join that carried the slot's token.
C10_SlotTaken ==
    [][\A t \in Threads :
         /\ join_select_slot(t) /\ players[thr[t].player] # NoToken
                => /\ thr'[t].pc = "ret" /\ thr'[t].res = "SlotTaken"
                   /\ UNCHANGED <<players, rooms_runtime>>
                   /\ objs'[rooms_runtime] = objs[rooms_runtime]
         /\ join_bind(t) => players[thr[t].player] = NoToken
         /\ join_insert(t) => players[thr[t].player] = NoToken]_vars

\* ------------------------------------------------------------------------
\* Claims C11..C20
\* ------------------------------------------------------------------------
\* the bindings and finished flags of the room as a handler finds them: those
\* of the registered dictionary, or of a fresh one when none is registered
RegView == IF rooms_runtime # 0 THEN objs[rooms_runtime] ELSE EmptyRt

\* connection c is not the connection the registry binds to slot p
NotBound(c, p) == RegView.players[p] # c

\* thread t has just returned the unauthorized error and has changed nothing
RejectedUnauthorized(t) ==
    /\ thr'[t].pc = "ret" /\ thr'[t].res = "Unauthorized" /\ thr'[t].bcast = {}
    /\ UNCHANGED <<secrets, history, room, timerVars>>

CheckErrors ==
    {"InvalidFormat", "Unauthorized", "SlotTaken", "RoomNotFound", "InvalidPlayer",
     "GameAlreadyStarted", "NotEnoughPlayers", "NotYourTurn", "NotStarted"}

\* the handlers that answer with one of these errors
CheckedOps == {"join_room", "set_secret", "reset_secret", "start_game", "submit_guess"}

\* the durable state, the bindings, the finished flags and the turn timers
\* are as they were
RoomUntouched ==
    /\ UNCHANGED <<room, players, secrets, history, timerVars>>
    /\ RegView' = RegView

\* C12: the step in which a client action returns one of the check errors
\* emits nothing to the room, and neither that step nor any earlier step of
\* the handler (taking the request, fetching the registry entry, the reads of
\* the token, of the slot, of the started flag, of the secret count, of the
\* turn) changes the durable state, the bindings, the finished flags or the
\* turn timers.
C12_RejectionChangesNothing ==
    [][\A t \in Threads :
         /\ thr[t].res = "" /\ thr'[t].res \in CheckErrors
                => /\ thr'[t].pc = "ret" /\ thr'[t].bcast = {}
                   /\ RoomUntouched
         /\ thr[t].op = "idle" /\ thr'[t].op \in CheckedOps => RoomUntouched
         /\ (\/ join_getrt(t) \/ join_select_token(t) \/ join_select_slot(t)
             \/ set_secret_select(t) \/ reset_secret_select(t)
             \/ start_game_count(t) \/ submit_guess_select_room(t)) => RoomUntouched]_vars

\* a join for a taken slot has been rejected during a game: the room is still
\* started, the slot keeps its token and its binding, the turn timer waits
C12_Witness ==
    /\ thr["t1"].op = "join_room" /\ thr["t1"].res = "SlotTaken"
    /\ room.started = 1
    /\ players[1] = Token(1, 1) /\ RegView.players[1] = "c1"
    /\ turn_timers # 0 /\ timer[turn_timers].st = "waiting"

\* C13: when the turn-timeout handler of a timer created for slot p writes
\* while the room is started and it is p's turn, current_turn becomes the
\* other slot, no history changes and the timed-out notice is emitted to the
\* room; the handler's last step registers a waiting turn timer for the
\* other slot.
C13_TimeoutPassesTurn ==
    [][\A k \in TimerIds :
         /\ handle_turn_timeout_update(k) /\ room.started = 1
              /\ room.current_turn = timer[k].player
                => /\ room'.current_turn # room.current_turn
                   /\ room'.current_turn \in Slots
                   /\ room'.started = 1
                   /\ history' = history
                   /\ "system" \in timer'[k].bcast
         /\ handle_turn_timeout_start(k)
                => /\ turn_timers' # 0
                   /\ timer'[turn_timers'].st = "waiting"
                   /\ timer'[turn_timers'].player \in Slots \ {timer[k].player}]_vars

\* slot 1 has timed out in a game without guesses: it is slot 2's turn and
\* slot 2's turn timer is scheduled
C13_Witness ==
    /\ room.started = 1 /\ room.current_turn = 2
    /\ \A p \in Slots : history[p] = {}
    /\ turn_timers # 0
    /\ timer[turn_timers] = [st |-> "waiting", player |-> 2, bcast |-> {}]
    /\ \A t \in Threads : thr[t].op = "idle"

\* C14: a turn-timeout handler that reads the room when its started flag is
\* false, or when the room has no row, ends there: it changes no durable
\* state, no registry entry, no other timer and not the timer map, and it has
\* emitted nothing.
C14_StaleTimeoutNoOp ==
    [][\A k \in TimerIds :
         handle_turn_timeout_select(k) /\ (~room.exists \/ room.started = 0)
            => /\ timer'[k].st = "free" /\ timer'[k].bcast = {}
               /\ \A j \in TimerIds \ {k} : timer'[j] = timer[j]
               /\ UNCHANGED <<storeVars, regVars, turn_timers, thr>>]_vars

\* a timer that had fired before admin_kill deleted the room: its callback
\* has run and its handler is about to read the room, which has no row
C14_Witness ==
    /\ ~room.exists
    /\ \E k \in TimerIds : timer[k].st = "h_select"
    /\ \A t \in Threads : thr[t].op = "idle"

\* disconnect of c unbinds exactly the slots bound to c and writes no
\* durable record
DisconnectUnbinds(c) ==
    /\ \A p \in Slots :
         RegView'.players[p] = IF RegView.players[p] = c THEN NoConn ELSE RegView.players[p]
    /\ RegView'.finished = RegView.finished
    /\ UNCHANGED <<room, players, secrets, history>>

\* C15: disconnect of connection c sets to None exactly the slots bound to c,
\* leaves the other bindings and every durable record as they are, and ends
\* with the registry lock released, which a later join_room with the slot's
\* token needs in order to rebind the slot.
C15_DisconnectThenRejoin ==
    [][\A t \in Threads, c \in Conns :
         on_disconnect(t, c) => DisconnectUnbinds(c) /\ rooms_lock' = "free"]_vars

\* C16: no handler is left holding the registry lock for ever: disconnect and
\* leave_room of a bound connection run to completion and release it.
C16_LockReleased == \A t \in Threads : thr[t].pc # "deadlock"

\* the player tokens and the registry bindings are as they were
TokensAndBindingsKept == players' = players /\ RegView'.players = RegView.players

\* C17: new_game, whatever the state of the room, clears all secrets and
\* histories and sets started false, current_turn 1 and the timer start to
\* null in its transaction, then sets both finished flags to false, and ends
\* with no turn timer scheduled for the room; none of its steps changes a
\* player token or a registry binding.
C17_NewGame ==
    [][\A t \in Threads :
         /\ on_new_game(t)
                => /\ \A p \in Slots : secrets'[p] = NoSecret /\ history'[p] = {}
                   /\ room'.started = 0 /\ room'.current_turn = 1
                   /\ room'.timer_start_ms = NoTime
                   /\ TokensAndBindingsKept
         /\ new_game_getrt(t) => TokensAndBindingsKept
         /\ new_game_finished(t)
                => /\ \A p \in Slots : ~RegView'.finished[p]
                   /\ TokensAndBindingsKept
         /\ new_game_cancel(t)
                => /\ turn_timers' = 0
                   /\ \A k \in TimerIds : timer'[k].st # "waiting"
                   /\ TokensAndBindingsKept]_vars

\* the indices of slot p's history rows are 1..n for n rows
Contiguous(h) == {r.idx : r \in h} = 1 .. Cardinality(h)

\* the rows a step adds to slot p's history
AddedRows(p) == history'[p] \ history[p]

\* C18: for every slot the history indices are exactly 1..n; a recorded guess
\* gets index n + 1; a row is never changed or removed on its own, the only
\* removal is the clearing of the whole history of both slots
C18_HistoryContiguous ==
    [][\A p \in Slots :
          /\ Contiguous(history'[p])
          /\ \A r \in AddedRows(p) : r.idx = Cardinality(history[p]) + 1
          /\ Cardinality(AddedRows(p)) <= 1
          /\ \/ history[p] \subseteq history'[p]
             \/ \A q \in Slots : history'[q] = {}]_vars

\* secrets rows a room could hold: per slot none, 1234 or 1243
SecretRows == [Slots -> {NoSecret, S1234, S1243}]

\* the secrets rows that commit the same slots as sec
SameCommitted(sec) == {s \in SecretRows : \A p \in Slots : (s[p] = NoSecret) <=> (sec[p] = NoSecret)}

\* C19: the public snapshot carries no secret value: a room that differs from
\* this one only in the values of its committed secrets, with the same row,
\* histories and finished flags, has the same public snapshot
C19_SnapshotHidesSecrets ==
    \A s \in SameCommitted(secrets) :
        public_state(room, s, history, RegView.finished)
            = public_state(room, secrets, history, RegView.finished)

\* a started game with both secrets committed and a recorded guess; the room
\* with other secret values is a different room
C19_Witness ==
    /\ room.exists /\ room.started = 1
    /\ \A p \in Slots : secrets[p] # NoSecret
    /\ \E p \in Slots : history[p] # {}
    /\ \E s \in SameCommitted(secrets) : s # secrets
    /\ public_state(room, secrets, history, RegView.finished).readiness = [p \in Slots |-> TRUE]

\* thread t is about to run the DELETE of reset_secret for a slot without a
\* secrets row
ResetsNothing(t) ==
    thr[t].op = "reset_secret" /\ thr[t].pc = "r_delete" /\ secrets[thr[t].player] = NoSecret

\* C20: reset_secret from the bound connection of a slot in a room that is not
\* started goes on to its DELETE without an error; for a slot with no secret
\* the DELETE succeeds and changes neither the store nor the timers; and the
\* DELETE leaves the slot without a secret and every other row as it was, so
\* a second reset_secret changes nothing
C20_ResetIdempotent ==
    [][\A t \in Threads :
          /\ (thr[t].op = "idle" /\ thr'[t].op = "reset_secret")
               => /\ UNCHANGED <<storeVars, timerVars>>
                  /\ (\A c \in Conns, p \in Slots :
                         on_reset_secret(t, c, p) /\ Authorized(c, p)
                            => thr'[t].pc = "r_select" /\ thr'[t].player = p)
          /\ reset_secret_select(t)
               => /\ UNCHANGED <<storeVars, timerVars>>
                  /\ (~GameStarted => thr'[t].pc = "r_delete" /\ thr'[t].res = "")
          /\ reset_secret_delete(t)
               => /\ thr'[t].res = "ok"
                  /\ secrets' = [secrets EXCEPT ![thr[t].player] = NoSecret]
                  /\ UNCHANGED <<room, players, history, timerVars>>
                  /\ (ResetsNothing(t) => UNCHANGED <<storeVars, timerVars>>)]_vars

\* a reset_secret at its DELETE for a slot with no secret, in a room that is not
\* started and whose other slot has a secret
C20_Witness ==
    \E t \in Threads :
        /\ ResetsNothing(t) /\ CanWrite
        /\ room.exists /\ ~GameStarted
        /\ secrets[Other(thr[t].player)] # NoSecret

\* a join_room, set_secret, submit_guess or new_game request arrives
Activity ==
    \E t \in Threads :
        /\ thr[t].op = "idle"
        /\ thr'[t].op \in {"join_room", "set_secret", "submit_guess", "new_game"}

\* nothing of the room is left: no row, no registry entry, no tracked timer
TornDown ==
    /\ ~room.exists
    /\ \A p \in Slots : players[p] = NoToken /\ secrets[p] = NoSecret /\ history[p] = {}
    /\ rooms_runtime = 0
    /\ turn_timers = 0

\* C21: a room on which no join, set_secret, submit_guess or new_game occurs
\* any more is eventually torn down: its rows are deleted, its registry entry
\* is cleared and its turn timer is cancelled
C21_InactiveRoomExpires == <>[][~Activity]_vars => <>TornDown

\* no handler and no timeout callback is running
Quiet ==
    /\ \A t \in Threads : thr[t].op = "idle"
    /\ \A k \in TimerIds : timer[k].st \in {"free", "waiting"}

\* C22: once the room has been deleted by /admin/kill and every handler has
\* finished, the store holds no players, secrets or history row of the room
\* and no turn timer is tracked or set for it
C22_KillLeavesNothing ==
    (~room.exists /\ Quiet) =>
        /\ \A p \in Slots : players[p] = NoToken /\ secrets[p] = NoSecret /\ history[p] = {}
        /\ turn_timers = 0
        /\ \A k \in TimerIds : timer[k].st = "free"

\* thread t1 takes an admin request
AdminRequest == thr["t1"].op = "idle" /\ thr'["t1"].op = "admin"

CountOf(s, x) == Cardinality({i \in DOMAIN s : s[i] = x})

\* the attempts of s younger than the window at time tm
YoungAt(s, tm) == {i \in DOMAIN s : tm - s[i] < window}

\* C24: an admin request of caller ip at time tm is refused with 429, whatever
\* its key, exactly when ADMIN_RATE_LIMIT of the caller's admitted attempts are
\* younger than 60 seconds; an admitted attempt is recorded, the recorded
\* attempts younger than 60 seconds are kept, so never more than
\* ADMIN_RATE_LIMIT are recorded; the attempts of other callers do not count
\* and are not changed
C24_RateLimit ==
    [][AdminRequest
          => LET ip == thr'["t1"].conn
                 tm == now'
                 old == admin_attempts[ip]
                 new == admin_attempts'[ip]
                 n == Cardinality(YoungAt(old, tm))
                 admitted == thr'["t1"].res # "429"
             IN  /\ admitted <=> (n < ADMIN_RATE_LIMIT)
                 /\ \A x \in RangeOf(old) \cup RangeOf(new) \cup {tm} :
                       CountOf(new, x) =
                           Cardinality({i \in YoungAt(old, tm) : old[i] = x})
                             + (IF admitted /\ x = tm THEN 1 ELSE 0)
                 /\ Len(new) <= ADMIN_RATE_LIMIT
                 /\ \A o \in Ips \ {ip} : admin_attempts'[o] = admin_attempts[o]]_vars

\* a caller whose attempts had filled the window is admitted again once the
\* oldest has aged: its list is full again, ending with this request
C24_Witness ==
    /\ thr["t1"].op = "admin" /\ thr["t1"].res # "429"
    /\ LET s == admin_attempts[thr["t1"].conn]
       IN  /\ Len(s) = ADMIN_RATE_LIMIT
           /\ s[1] > 1
           /\ s[ADMIN_RATE_LIMIT] = now

RECURSIVE Agreeing(_, _, _)
\* the number of positions 1..i at which g and s carry the same character
Agreeing(g, s, i) ==
    IF i = 0 THEN 0 ELSE Agreeing(g, s, i - 1) + (IF g[i] = s[i] THEN 1 ELSE 0)

\* a call of fn has returned
Returned(fn) == call.fn # "none" /\ call.fn = fn /\ call.returned

\* C25: for 4-digit strings g and s, count_matches(g, s) is the number of
\* positions at which g and s agree, lies in 0..4, and is 4 exactly when g = s
C25_CountMatches ==
    Returned("count_matches") =>
        LET g == call.args[1]
            s == call.args[2]
        IN  /\ call.value = Agreeing(g, s, 4)
            /\ call.value \in 0 .. 4
            /\ (call.value = 4) <=> (g = s)

\* two different strings that agree in three positions
C25_Witness ==
    Returned("count_matches") /\ call.value = 3 /\ call.args[1] # call.args[2]

\* v is four characters 0-9, the first not 0
FourDigitNumber(v) ==
    /\ Len(v) = 4
    /\ \A i \in 1 .. 4 : v[i] \in {"0", "1", "2", "3", "4", "5", "6", "7", "8", "9"}
    /\ v[1] # "0"

\* C26: validate_number(v) returns true exactly when v is four characters 0-9
\* with a value in 1000..9999, and false for every other input
C26_ValidateNumber ==
    Returned("validate_number") =>
        /\ call.value \in {"True", "False"}
        /\ (call.value = "True") <=> FourDigitNumber(call.args[1])

\* C27: a guess of slot p is recorded only while the game is started and it is
\* p's turn, whatever the interleaving of guesses and turn timeouts
C27_RecordedOnOwnTurn ==
    [][\A p \in Slots :
          AddedRows(p) # {} => room.exists /\ room.started = 1 /\ room.current_turn = p]_vars

\* C28: while the room's started flag is true no secret is created, replaced
\* or removed, whatever the interleaving of set_secret, reset_secret and
\* start_game; only new_game clears them all, ending the game
C28_NoSecretWriteWhileStarted ==
    [][room.exists /\ room.started = 1
          => \/ secrets' = secrets
             \/ room'.started = 0 /\ \A p \in Slots : secrets'[p] = NoSecret]_vars

\* C29: a token stored for a slot stays the slot's token as long as the room
\* exists; in particular a second join_room without token for the same slot
\* does not replace the token reported to the first joiner
C29_TokenImmutable ==
    [][\A p \in Slots :
          players[p] # NoToken /\ room'.exists => players'[p] = players[p]]_vars

\* C30: a turn-timeout callback created for slot p that is handled when the
\* stored current_turn is not p returns at its check: it writes nothing,
\* broadcasts nothing and starts no timer
C30_StaleTimeoutReturns ==
    [][\A k \in TimerIds :
          /\ handle_turn_timeout_select(k)
          /\ room.exists /\ room.current_turn # timer[k].player
          => timer'[k] = FreeTimer]_vars

\* the turn timers that are scheduled: started, not fired, not cancelled
LiveTimers == {k \in TimerIds : timer[k].st = "waiting"}

\* C31: at every moment the room has at most one live turn-timeout timer,
\* whatever the interleaving of the handlers that schedule or cancel timers
C31_OneLiveTimer == Cardinality(LiveTimers) <= 1

\* C32: the entry a firing timer removes from turn_timers before it calls the
\* timeout handler is its own, never that of a newer timer of the room
C32_FiringTimerPopsOwnEntry ==
    [][\A k \in TimerIds :
          timer[k].st = "cb" /\ timer'[k].st = "h_select"
          => turn_timers \in {0, k}]_vars

\* thread t called public_state inside its `with rooms_lock` block: holding
\* the lock it has run public_state's SELECTs and now asks for the lock again
\* in get_runtime_room
StoreCallUnderLock(t) ==
    thr[t].op \in {"disconnect", "leave_room"} /\ t \in LockHolders

\* C33: no handler calls the store while it holds the registry lock, and none
\* asks for the registry lock while holding it; disconnect, leave_room and
\* every path that builds the public snapshot included
C33_NoStoreCallUnderLock == \A t \in Threads : ~StoreCallUnderLock(t)

\* a join_room of connection c for slot p has bound c and has not yet written
\* the players row
JoinInFlight(c, p) ==
    \E t \in Threads :
        /\ thr[t].op = "join_room" /\ thr[t].pc \in {"j_touch", "j_insert"}
        /\ thr[t].conn = c /\ thr[t].player = p

\* C34: a registry binding of slot p names a connection that is still
\* connected and whose join or rejoin for p succeeded (a token is stored for
\* p), whatever the interleaving of join_room, leave_room and disconnect; a
\* join between its binding and its write is not held against the claim
C34_BindingsAreLive ==
    \A p \in Slots :
        LET c == RegView.players[p]
        IN  c # NoConn /\ ~JoinInFlight(c, p)
                => c \in connected /\ players[p] # NoToken

\* the store write of thread t's handler op fails at this step
WriteFails(t, op) == thr[t].op = op /\ thr[t].res = "" /\ thr'[t].res = "Failed"

\* a turn timer of slot p is scheduled, or has fired and is being handled
TimerPending(p) == \E k \in TimerIds : timer[k].st # "free" /\ timer[k].player = p

\* C35: a handler whose store write fails reports the generic failure to its
\* caller only and changes no finished flag; a failed submit_guess changes no
\* binding and leaves the turn timer of the current slot scheduled, a failed
\* join_room leaves the slot unbound
C35_FailedWriteChangesNothing ==
    [][\A t \in Threads :
          /\ WriteFails(t, "submit_guess")
             => /\ thr'[t].bcast = {}
                /\ RegView' = RegView
                /\ (room.exists /\ room.started = 1 => TimerPending(room.current_turn)')
          /\ WriteFails(t, "join_room")
             => /\ thr'[t].bcast = {}
                /\ RegView'.finished = RegView.finished
                /\ RegView'.players[thr[t].player] # thr[t].conn]_vars

\* current_turn changes in a room that is and stays started
TurnChanges ==
    /\ room.exists /\ room.started = 1 /\ room'.started = 1
    /\ room'.current_turn # room.current_turn

\* C36: while the room is Playing, timer_start_ms is the time at which the
\* current turn began: every change of current_turn by a non-winning guess
\* or by a turn timeout sets it to the time of the change
C36_TimerStartRenewed ==
    [][TurnChanges => room'.timer_start_ms = now']_vars

\* the step is the write of an accepted non-winning guess of the current slot
GuessOfCurrentSlot ==
    \E t \in Threads :
        /\ thr[t].op = "submit_guess" /\ thr[t].pc = "q_insert"
        /\ thr[t].player = room.current_turn /\ history'[thr[t].player] # history[thr[t].player]

\* the step is the write of the turn timeout of the current slot
TimeoutOfCurrentSlot ==
    \E k \in TimerIds :
        /\ timer[k].st = "h_update" /\ timer'[k].st # "h_update"
        /\ timer[k].player = room.current_turn

\* the step is the UPDATE of a start_game in a room that is already started
StartWhilePlaying ==
    /\ room.exists /\ room.started = 1
    /\ \E t \in Threads :
          thr[t].op = "start_game" /\ thr[t].pc = "g_update" /\ thr'[t].pc = "g_finished"

\* C37: while the room is Playing, current_turn changes only by an accepted
\* non-winning guess of the current slot or by a turn timeout of the current
\* slot; a start_game in a room already Playing alters neither current_turn
\* nor the timer start
C37_TurnChangesOnlyByPlay ==
    [][/\ TurnChanges => GuessOfCurrentSlot \/ TimeoutOfCurrentSlot
       /\ StartWhilePlaying => /\ room'.current_turn = room.current_turn
                               /\ room'.timer_start_ms = room.timer_start_ms]_vars

\* C38: whenever the started flag goes from false to true both guess
\* histories are empty: after a win the room is started again only after
\* new_game or an admin reset has cleared secrets and history
C38_StartsWithEmptyHistory ==
    [][room.exists /\ room.started = 0 /\ room'.started = 1
          => \A p \in Slots : history'[p] = {}]_vars

\* the identifier denotes a room in its initial state: not started, slot 1
\* to move, no tokens, no secrets, no history
FreshRoom ==
    /\ room = NewRoom
    /\ \A p \in Slots : players[p] = NoToken /\ secrets[p] = NoSecret /\ history[p] = {}

\* C39: the identifier create_room returns denotes a room with started false,
\* current_turn 1, no tokens, no secrets and no history, and create_room
\* changes no room that existed before, also when the generated code is the
\* identifier of a room already in the store
C39_CreateRoomFresh ==
    [][\A t \in Threads :
          /\ thr[t].op = "create_room" /\ thr'[t].res = "room_created" => FreshRoom'
          /\ thr[t].op = "idle" /\ thr'[t].op = "create_room" /\ room.exists
                => UNCHANGED <<room, players, secrets, history>>]_vars

\* C40: in a room that stays Playing and in which no guess is accepted,
\* current_turn changes again and again, whatever the players' joins, leaves,
\* disconnects and reconnects, given that timers fire and handlers proceed
C40_TurnKeepsPassing == []<><<TurnChanges>>_vars
====
